---- MODULE Spec2Model ----
(***************************************************************************)
(* The tree-walking evaluator of src/src/engine.rs as a state machine.     *)
(*                                                                         *)
(* eval_stmt is modelled one step at a time: a statement about to be       *)
(* evaluated is held in ctl, the statements whose evaluation is suspended  *)
(* on a nested eval_stmt call are the frames of stk.  eval_expr, the       *)
(* governors and the scope search are operators, computed as the code      *)
(* computes them, threading the context c = (scope, mods, state, this).    *)
(* trace is a history variable: the calls made to the call-resolution      *)
(* collaborator and the index values the chain walker evaluates and pops.  *)
(*                                                                         *)
(* Spec runs eval_stmt on a statement. SpecExpr runs eval_expr on the      *)
(* expressions of prog, one call after the other, stk keeping the calls    *)
(* made. SpecSearch applies search_scope_only to the variable in prog.     *)
(* SpecSize applies check_data_size to a result.                           *)
(***************************************************************************)
EXTENDS Integers, Sequences, FiniteSets, TLC

VARIABLES
    prog,       \* the statement handed to the top-level eval_stmt
    engine,     \* the Engine's configuration fields
    this_ptr,   \* the this-binding (NoThis when the call has none)
    scope,      \* Scope: sequence of entries (name, typ, value)
    mods,       \* Imports: sequence of (alias, module)
    state,      \* State: always_search, scope_level, operations, modules
    stk,        \* suspended eval_stmt calls, innermost first
    ctl,        \* the call being made or the result being returned
    last,       \* the eval_stmt call that returned last, with its entry lengths
    trace       \* history: collaborator calls and index values, in order

vars == <<prog, engine, this_ptr, scope, mods, state, stk, ctl, last, trace>>

(***************************************************************************)
(* Bounds of the model.                                                    *)
(***************************************************************************)
\* state.operations is explored up to this count
MaxOps == 15
\* the value of max_operations when the operations limit is switched on
OpsLimit == 7
\* the value of the size caps when they are switched on
SizeCap == 2

(***************************************************************************)
(* Dynamic values (crate::any::Dynamic, seen through its Union cases).     *)
(* A string is a sequence of one-character strings.                        *)
(***************************************************************************)
UnitVal == [t |-> "unit"]
IntVal(i) == [t |-> "int", i |-> i]
BoolVal(b) == [t |-> "bool", b |-> b]
StrVal(s) == [t |-> "str", s |-> s]
ArrayVal(a) == [t |-> "array", a |-> a]
MapVal(m) == [t |-> "map", m |-> m]
CharVal(ch) == [t |-> "char", c |-> ch]
\* a float, held as the text of its literal
FloatVal(f) == [t |-> "float", f |-> f]
\* FnPtr::new_unchecked: a function name and its curried arguments
FnPtrVal(name, curry) == [t |-> "fnptr", name |-> name, curry |-> curry]
Variant(tag) == [t |-> "variant", tag |-> tag]
\* a value of a type the host registers functions for, with the fields they use
HostVal(f) == [t |-> "variant", tag |-> "host", f |-> f]

type_id(v) == IF v.t = "variant" THEN v.tag ELSE v.t

Ok(v) == [ok |-> TRUE, v |-> v]
Err(e) == [ok |-> FALSE, e |-> e]
E(kind) == [k |-> kind]
ErrorLoopBreak(brk) == [k |-> "ErrorLoopBreak", brk |-> brk]
ErrorDataTooLarge(cat, limit, actual) ==
    [k |-> "ErrorDataTooLarge", cat |-> cat, limit |-> limit, actual |-> actual]
ErrorArrayBounds(len, index) == [k |-> "ErrorArrayBounds", len |-> len, index |-> index]
ErrorBooleanArgMismatch(op) == [k |-> "ErrorBooleanArgMismatch", op |-> op]
\* the function that was not found is named by the name it was called by
ErrorFunctionNotFound(name) == [k |-> "ErrorFunctionNotFound", name |-> name]
ErrorStringBounds(len, index) == [k |-> "ErrorStringBounds", len |-> len, index |-> index]

\* no result: the evaluation goes on beyond the operations the model explores
Unfinished == Err(E("unfinished"))

\* unreachable!() and an index out of bounds panic: the result of a panic is
\* carried as an error of its own kind, which no caller handles
Panicked(res) == res = Err(E("panic"))

NoThis == [t |-> "nothis"]
None == [k |-> "None"]

\* A limit of type usize is held as its four 16-bit limbs, the most significant
\* first, since usize::MAX of the 64-bit build is beyond the integers of TLC.
\* max_modules of Engine::new(): usize::MAX = 18446744073709551615
USIZE_MAX == <<65535, 65535, 65535, 65535>>

\* the usize of a number below 2^31
usize(n) == <<0, 0, n \div 65536, n % 65536>>

\* n >= limit, for a count n that the model holds as an integer (below 2^31)
ge_usize(n, limit) ==
    /\ limit[1] = 0
    /\ limit[2] = 0
    /\ limit[3] < 32768
    /\ n >= limit[3] * 65536 + limit[4]

(***************************************************************************)
(* The operations governor.                                                *)
(***************************************************************************)
\* the progress callback: none when engine.progress is 0, else a callback that
\* answers false from the count engine.progress on
progress(count) == count < engine.progress

\* a governor that trips one tick early
inc_operations_inclusive(st) ==
    LET st1 == [st EXCEPT !.operations = st.operations + 1] IN
    IF engine.max_operations > 0 /\ st1.operations >= engine.max_operations
    THEN [state |-> st1, err |-> "ErrorTooManyOperations"]
    ELSE [state |-> st1, err |-> "none"]

\* a governor that counts and never trips
inc_operations_unlimited(st) ==
    [state |-> [st EXCEPT !.operations = st.operations + 1], err |-> "none"]

\* the history: the callback has been called with the count of st
polled(st) == [st EXCEPT !.polled = Append(@, st.operations)]

\* a governor that reports progress before it checks the limit
inc_operations_polling_first(st) ==
    LET st1 == [st EXCEPT !.operations = st.operations + 1] IN
    IF engine.progress # 0 /\ ~progress(st1.operations)
    THEN [state |-> polled(st1), err |-> "ErrorTerminated"]
    ELSE IF engine.max_operations > 0 /\ st1.operations > engine.max_operations
    THEN [state |-> IF engine.progress # 0 THEN polled(st1) ELSE st1,
          err |-> "ErrorTooManyOperations"]
    ELSE [state |-> IF engine.progress # 0 THEN polled(st1) ELSE st1, err |-> "none"]

inc_operations(st) ==
    LET st1 == [st EXCEPT !.operations = st.operations + 1] IN
    IF engine.max_operations > 0 /\ st1.operations > engine.max_operations
    THEN [state |-> st1, err |-> "ErrorTooManyOperations"]
    ELSE IF engine.progress # 0 /\ ~progress(st1.operations)
    THEN [state |-> polled(st1), err |-> "ErrorTerminated"]
    ELSE [state |-> IF engine.progress # 0 THEN polled(st1) ELSE st1, err |-> "none"]

(***************************************************************************)
(* The size governor.                                                      *)
(***************************************************************************)
\* the characters U+0001..U+007F that a string of this module can hold: one byte
\* each in UTF-8 (U+0000 is no character of the model)
Ascii ==
    { "", "", "", "", "", "", "", "", "\t", "\n", "", "\f", "\r", "", "", "",
      "", "", "", "", "", "", "", "", "", "", "", "", "", "", "", " ", "!", "\"",
      "#", "$", "%", "&", "'", "(", ")", "*", "+", ",", "-", ".", "/", "0", "1", "2", "3", "4",
      "5", "6", "7", "8", "9", ":", ";", "<", "=", ">", "?", "@", "A", "B", "C", "D", "E", "F",
      "G", "H", "I", "J", "K", "L", "M", "N", "O", "P", "Q", "R", "S", "T", "U", "V", "W", "X",
      "Y", "Z", "[", "\\", "]", "^", "_", "a", "b", "c", "d", "e", "f", "g", "h", "i", "j",
      "k", "l", "m", "n", "o", "p", "q", "r", "s", "t", "u", "v", "w", "x", "y", "z", "{", "|",
      "}", "~", "" }

\* the characters U+0080..U+07FF that a string of this module can hold: two
\* bytes each
TwoByteChars ==
    { "", "", "", "", "", "", "", "", "", "", "", "", "", "", "", "", "", "",
      "", "", "", "", "", "", "", "", "", "", "", "", "", "", " ", "¡", "¢", "£",
      "¤", "¥", "¦", "§", "¨", "©", "ª", "«", "¬", "­", "®", "¯", "°", "±", "²", "³", "´", "µ",
      "¶", "·", "¸", "¹", "º", "»", "¼", "½", "¾", "¿", "À", "Á", "Â", "Ã", "Ä", "Å", "Æ", "Ç",
      "È", "É", "Ê", "Ë", "Ì", "Í", "Î", "Ï", "Ð", "Ñ", "Ò", "Ó", "Ô", "Õ", "Ö", "×", "Ø", "Ù",
      "Ú", "Û", "Ü", "Ý", "Þ", "ß", "à", "á", "â", "ã", "ä", "å", "æ", "ç", "è", "é", "ê", "ë",
      "ì", "í", "î", "ï", "ð", "ñ", "ò", "ó", "ô", "õ", "ö", "÷", "ø", "ù", "ú", "û", "ü", "ý",
      "þ", "ÿ", "ƀ", "Ɓ", "Ƃ", "ƃ", "Ƅ", "ƅ", "Ɔ", "Ƈ", "ƈ", "Ɖ", "Ɗ", "Ƌ", "ƌ", "ƍ", "Ǝ", "Ə",
      "Ɛ", "Ƒ", "ƒ", "Ɠ", "Ɣ", "ƕ", "Ɩ", "Ɨ", "Ƙ", "ƙ", "ƚ", "ƛ", "Ɯ", "Ɲ", "ƞ", "Ɵ", "Ơ", "ơ",
      "Ƣ", "ƣ", "Ƥ", "ƥ", "Ʀ", "Ƨ", "ƨ", "Ʃ", "ƪ", "ƫ", "Ƭ", "ƭ", "Ʈ", "Ư", "ư", "Ʊ", "Ʋ", "Ƴ",
      "ƴ", "Ƶ", "ƶ", "Ʒ", "Ƹ", "ƹ", "ƺ", "ƻ", "Ƽ", "ƽ", "ƾ", "ƿ", "ǀ", "ǁ", "ǂ", "ǃ", "Ǆ", "ǅ",
      "ǆ", "Ǉ", "ǈ", "ǉ", "Ǌ", "ǋ", "ǌ", "Ǎ", "ǎ", "Ǐ", "ǐ", "Ǒ", "ǒ", "Ǔ", "ǔ", "Ǖ", "ǖ", "Ǘ",
      "ǘ", "Ǚ", "ǚ", "Ǜ", "ǜ", "ǝ", "Ǟ", "ǟ", "Ǡ", "ǡ", "Ǣ", "ǣ", "Ǥ", "ǥ", "Ǧ", "ǧ", "Ǩ", "ǩ",
      "Ǫ", "ǫ", "Ǭ", "ǭ", "Ǯ", "ǯ", "ǰ", "Ǳ", "ǲ", "ǳ", "Ǵ", "ǵ", "Ƕ", "Ƿ", "Ǹ", "ǹ", "Ǻ", "ǻ",
      "Ǽ", "ǽ", "Ǿ", "ǿ", "ʀ", "ʁ", "ʂ", "ʃ", "ʄ", "ʅ", "ʆ", "ʇ", "ʈ", "ʉ", "ʊ", "ʋ", "ʌ", "ʍ",
      "ʎ", "ʏ", "ʐ", "ʑ", "ʒ", "ʓ", "ʔ", "ʕ", "ʖ", "ʗ", "ʘ", "ʙ", "ʚ", "ʛ", "ʜ", "ʝ", "ʞ", "ʟ",
      "ʠ", "ʡ", "ʢ", "ʣ", "ʤ", "ʥ", "ʦ", "ʧ", "ʨ", "ʩ", "ʪ", "ʫ", "ʬ", "ʭ", "ʮ", "ʯ", "ʰ", "ʱ",
      "ʲ", "ʳ", "ʴ", "ʵ", "ʶ", "ʷ", "ʸ", "ʹ", "ʺ", "ʻ", "ʼ", "ʽ", "ʾ", "ʿ", "ˀ", "ˁ", "˂", "˃",
      "˄", "˅", "ˆ", "ˇ", "ˈ", "ˉ", "ˊ", "ˋ", "ˌ", "ˍ", "ˎ", "ˏ", "ː", "ˑ", "˒", "˓", "˔", "˕",
      "˖", "˗", "˘", "˙", "˚", "˛", "˜", "˝", "˞", "˟", "ˠ", "ˡ", "ˢ", "ˣ", "ˤ", "˥", "˦", "˧",
      "˨", "˩", "˪", "˫", "ˬ", "˭", "ˮ", "˯", "˰", "˱", "˲", "˳", "˴", "˵", "˶", "˷", "˸", "˹",
      "˺", "˻", "˼", "˽", "˾", "˿", "΀", "΁", "΂", "΃", "΄", "΅", "Ά", "·", "Έ", "Ή", "Ί", "΋",
      "Ό", "΍", "Ύ", "Ώ", "ΐ", "Α", "Β", "Γ", "Δ", "Ε", "Ζ", "Η", "Θ", "Ι", "Κ", "Λ", "Μ", "Ν",
      "Ξ", "Ο", "Π", "Ρ", "΢", "Σ", "Τ", "Υ", "Φ", "Χ", "Ψ", "Ω", "Ϊ", "Ϋ", "ά", "έ", "ή", "ί",
      "ΰ", "α", "β", "γ", "δ", "ε", "ζ", "η", "θ", "ι", "κ", "λ", "μ", "ν", "ξ", "ο", "π", "ρ",
      "ς", "σ", "τ", "υ", "φ", "χ", "ψ", "ω", "ϊ", "ϋ", "ό", "ύ", "ώ", "Ϗ", "ϐ", "ϑ", "ϒ", "ϓ",
      "ϔ", "ϕ", "ϖ", "ϗ", "Ϙ", "ϙ", "Ϛ", "ϛ", "Ϝ", "ϝ", "Ϟ", "ϟ", "Ϡ", "ϡ", "Ϣ", "ϣ", "Ϥ", "ϥ",
      "Ϧ", "ϧ", "Ϩ", "ϩ", "Ϫ", "ϫ", "Ϭ", "ϭ", "Ϯ", "ϯ", "ϰ", "ϱ", "ϲ", "ϳ", "ϴ", "ϵ", "϶", "Ϸ",
      "ϸ", "Ϲ", "Ϻ", "ϻ", "ϼ", "Ͻ", "Ͼ", "Ͽ", "Ҁ", "ҁ", "҂", "҃", "҄", "҅", "҆", "҇", "҈", "҉",
      "Ҋ", "ҋ", "Ҍ", "ҍ", "Ҏ", "ҏ", "Ґ", "ґ", "Ғ", "ғ", "Ҕ", "ҕ", "Җ", "җ", "Ҙ", "ҙ", "Қ", "қ",
      "Ҝ", "ҝ", "Ҟ", "ҟ", "Ҡ", "ҡ", "Ң", "ң", "Ҥ", "ҥ", "Ҧ", "ҧ", "Ҩ", "ҩ", "Ҫ", "ҫ", "Ҭ", "ҭ",
      "Ү", "ү", "Ұ", "ұ", "Ҳ", "ҳ", "Ҵ", "ҵ", "Ҷ", "ҷ", "Ҹ", "ҹ", "Һ", "һ", "Ҽ", "ҽ", "Ҿ", "ҿ",
      "Ӏ", "Ӂ", "ӂ", "Ӄ", "ӄ", "Ӆ", "ӆ", "Ӈ", "ӈ", "Ӊ", "ӊ", "Ӌ", "ӌ", "Ӎ", "ӎ", "ӏ", "Ӑ", "ӑ",
      "Ӓ", "ӓ", "Ӕ", "ӕ", "Ӗ", "ӗ", "Ә", "ә", "Ӛ", "ӛ", "Ӝ", "ӝ", "Ӟ", "ӟ", "Ӡ", "ӡ", "Ӣ", "ӣ",
      "Ӥ", "ӥ", "Ӧ", "ӧ", "Ө", "ө", "Ӫ", "ӫ", "Ӭ", "ӭ", "Ӯ", "ӯ", "Ӱ", "ӱ", "Ӳ", "ӳ", "Ӵ", "ӵ",
      "Ӷ", "ӷ", "Ӹ", "ӹ", "Ӻ", "ӻ", "Ӽ", "ӽ", "Ӿ", "ӿ", "ր", "ց", "ւ", "փ", "ք", "օ", "ֆ", "և",
      "ֈ", "։", "֊", "֋", "֌", "֍", "֎", "֏", "֐", "֑", "֒", "֓", "֔", "֕", "֖", "֗", "֘", "֙",
      "֚", "֛", "֜", "֝", "֞", "֟", "֠", "֡", "֢", "֣", "֤", "֥", "֦", "֧", "֨", "֩", "֪", "֫",
      "֬", "֭", "֮", "֯", "ְ", "ֱ", "ֲ", "ֳ", "ִ", "ֵ", "ֶ", "ַ", "ָ", "ֹ", "ֺ", "ֻ", "ּ", "ֽ",
      "־", "ֿ", "׀", "ׁ", "ׂ", "׃", "ׄ", "ׅ", "׆", "ׇ", "׈", "׉", "׊", "׋", "׌", "׍", "׎", "׏",
      "א", "ב", "ג", "ד", "ה", "ו", "ז", "ח", "ט", "י", "ך", "כ", "ל", "ם", "מ", "ן", "נ", "ס",
      "ע", "ף", "פ", "ץ", "צ", "ק", "ר", "ש", "ת", "׫", "׬", "׭", "׮", "ׯ", "װ", "ױ", "ײ", "׳",
      "״", "׵", "׶", "׷", "׸", "׹", "׺", "׻", "׼", "׽", "׾", "׿", "ڀ", "ځ", "ڂ", "ڃ", "ڄ", "څ",
      "چ", "ڇ", "ڈ", "ډ", "ڊ", "ڋ", "ڌ", "ڍ", "ڎ", "ڏ", "ڐ", "ڑ", "ڒ", "ړ", "ڔ", "ڕ", "ږ", "ڗ",
      "ژ", "ڙ", "ښ", "ڛ", "ڜ", "ڝ", "ڞ", "ڟ", "ڠ", "ڡ", "ڢ", "ڣ", "ڤ", "ڥ", "ڦ", "ڧ", "ڨ", "ک",
      "ڪ", "ګ", "ڬ", "ڭ", "ڮ", "گ", "ڰ", "ڱ", "ڲ", "ڳ", "ڴ", "ڵ", "ڶ", "ڷ", "ڸ", "ڹ", "ں", "ڻ",
      "ڼ", "ڽ", "ھ", "ڿ", "ۀ", "ہ", "ۂ", "ۃ", "ۄ", "ۅ", "ۆ", "ۇ", "ۈ", "ۉ", "ۊ", "ۋ", "ی", "ۍ",
      "ێ", "ۏ", "ې", "ۑ", "ے", "ۓ", "۔", "ە", "ۖ", "ۗ", "ۘ", "ۙ", "ۚ", "ۛ", "ۜ", "۝", "۞", "۟",
      "۠", "ۡ", "ۢ", "ۣ", "ۤ", "ۥ", "ۦ", "ۧ", "ۨ", "۩", "۪", "۫", "۬", "ۭ", "ۮ", "ۯ", "۰", "۱",
      "۲", "۳", "۴", "۵", "۶", "۷", "۸", "۹", "ۺ", "ۻ", "ۼ", "۽", "۾", "ۿ", "ހ", "ށ", "ނ", "ރ",
      "ބ", "ޅ", "ކ", "އ", "ވ", "މ", "ފ", "ދ", "ތ", "ލ", "ގ", "ޏ", "ސ", "ޑ", "ޒ", "ޓ", "ޔ", "ޕ",
      "ޖ", "ޗ", "ޘ", "ޙ", "ޚ", "ޛ", "ޜ", "ޝ", "ޞ", "ޟ", "ޠ", "ޡ", "ޢ", "ޣ", "ޤ", "ޥ", "ަ", "ާ",
      "ި", "ީ", "ު", "ޫ", "ެ", "ޭ", "ޮ", "ޯ", "ް", "ޱ", "޲", "޳", "޴", "޵", "޶", "޷", "޸", "޹",
      "޺", "޻", "޼", "޽", "޾", "޿", "߀", "߁", "߂", "߃", "߄", "߅", "߆", "߇", "߈", "߉", "ߊ", "ߋ",
      "ߌ", "ߍ", "ߎ", "ߏ", "ߐ", "ߑ", "ߒ", "ߓ", "ߔ", "ߕ", "ߖ", "ߗ", "ߘ", "ߙ", "ߚ", "ߛ", "ߜ", "ߝ",
      "ߞ", "ߟ", "ߠ", "ߡ", "ߢ", "ߣ", "ߤ", "ߥ", "ߦ", "ߧ", "ߨ", "ߩ", "ߪ", "߫", "߬", "߭", "߮", "߯",
      "߰", "߱", "߲", "߳", "ߴ", "ߵ", "߶", "߷", "߸", "߹", "ߺ", "߻", "߼", "߽", "߾", "߿" }

\* char::len_utf8: one byte up to U+007F, two up to U+07FF, three up to U+FFFF
\* and four beyond, where the character is held as a pair of code units
len_utf8(ch) ==
    IF Len(ch) = 2 THEN 4
    ELSE IF ch \in Ascii THEN 1
    ELSE IF ch \in TwoByteChars THEN 2
    ELSE 3

\* str::len: the length of a string in bytes of UTF-8
RECURSIVE str_len(_)
str_len(s) == IF s = <<>> THEN 0 ELSE len_utf8(Head(s)) + str_len(Tail(s))

RECURSIVE calc_size(_)
RECURSIVE calc_elems(_, _)
RECURSIVE calc_entries(_, _)

\* the for_each over the elements of an array: (arrays, maps)
calc_elems(arr, n) ==
    IF n = 0 THEN <<0, 0>>
    ELSE LET acc == calc_elems(arr, n - 1)
             value == arr[n]
         IN  IF value.t \in {"array", "map"}
             THEN LET s == calc_size(value) IN <<acc[1] + s[1], acc[2] + s[2]>>
             ELSE <<acc[1] + 1, acc[2]>>

\* the for_each over the values of a map: (arrays, maps)
calc_entries(map, keys) ==
    IF keys = {} THEN <<0, 0>>
    ELSE LET key == CHOOSE x \in keys : TRUE
             acc == calc_entries(map, keys \ {key})
             value == map[key]
         IN  IF value.t \in {"array", "map"}
             THEN LET s == calc_size(value) IN <<acc[1] + s[1], acc[2] + s[2]>>
             ELSE <<acc[1], acc[2] + 1>>

calc_size(value) ==
    CASE value.t = "array" ->
            LET s == calc_elems(value.a, Len(value.a)) IN <<s[1], s[2], 0>>
      [] value.t = "map" ->
            LET s == calc_entries(value.m, DOMAIN value.m) IN <<s[1], s[2], 0>>
      [] value.t = "str" -> <<0, 0, str_len(value.s)>>
      [] OTHER -> <<0, 0, 0>>

\* a size check that rejects a value already at its cap
check_data_size_inclusive(eng, result) ==
    IF eng.max_string_size + eng.max_array_size + eng.max_map_size = 0 THEN result
    ELSE IF ~result.ok THEN result
    ELSE IF ~ \/ result.v.t = "str" /\ eng.max_string_size > 0
              \/ result.v.t = "array" /\ eng.max_array_size > 0
              \/ result.v.t = "map" /\ eng.max_map_size > 0
         THEN result
    ELSE LET sz == calc_size(result.v) IN
         IF sz[3] >= eng.max_string_size /\ result.v.t = "str"
         THEN Err(ErrorDataTooLarge("Length of string", eng.max_string_size, sz[3]))
         ELSE IF sz[1] >= eng.max_array_size /\ result.v.t = "array"
         THEN Err(ErrorDataTooLarge("Size of array", eng.max_array_size, sz[1]))
         ELSE IF sz[2] >= eng.max_map_size /\ result.v.t = "map"
         THEN Err(ErrorDataTooLarge("Number of properties in object map",
                                    eng.max_map_size, sz[2]))
         ELSE result

\* a size check that measures every successful value when a cap is set
check_data_size_unguarded(eng, result) ==
    IF eng.max_string_size + eng.max_array_size + eng.max_map_size = 0 THEN result
    ELSE IF ~result.ok THEN result
    ELSE LET sz == calc_size(result.v) IN
         IF sz[3] > eng.max_string_size
         THEN Err(ErrorDataTooLarge("Length of string", eng.max_string_size, sz[3]))
         ELSE IF sz[1] > eng.max_array_size
         THEN Err(ErrorDataTooLarge("Size of array", eng.max_array_size, sz[1]))
         ELSE IF sz[2] > eng.max_map_size
         THEN Err(ErrorDataTooLarge("Number of properties in object map",
                                    eng.max_map_size, sz[2]))
         ELSE result

\* check_data_size under the caps of an engine configuration eng
check_data_size_with(eng, result) ==
    IF eng.max_string_size + eng.max_array_size + eng.max_map_size = 0 THEN result
    ELSE IF ~result.ok THEN result
    ELSE IF ~ \/ result.v.t = "str" /\ eng.max_string_size > 0
              \/ result.v.t = "array" /\ eng.max_array_size > 0
              \/ result.v.t = "map" /\ eng.max_map_size > 0
         THEN result
    ELSE LET sz == calc_size(result.v) IN
         IF sz[3] > eng.max_string_size
         THEN Err(ErrorDataTooLarge("Length of string", eng.max_string_size, sz[3]))
         ELSE IF sz[1] > eng.max_array_size
         THEN Err(ErrorDataTooLarge("Size of array", eng.max_array_size, sz[1]))
         ELSE IF sz[2] > eng.max_map_size
         THEN Err(ErrorDataTooLarge("Number of properties in object map",
                                    eng.max_map_size, sz[2]))
         ELSE result

check_data_size(result) == check_data_size_with(engine, result)

(***************************************************************************)
(* The syntax tree (crate::parser::Expr and Stmt), positions left out.     *)
(* A Variable carries its module qualifier (None, or the root alias with   *)
(* its cached offset) and its cached scope offset (0 = no offset).         *)
(***************************************************************************)
Expr_IntegerConstant(i) == [k |-> "IntegerConstant", i |-> i]
Expr_StringConstant(s) == [k |-> "StringConstant", s |-> s]
Expr_CharConstant(ch) == [k |-> "CharConstant", c |-> ch]
Expr_FloatConstant(f) == [k |-> "FloatConstant", f |-> f]
Expr_FnPointer(name) == [k |-> "FnPointer", name |-> name]
\* a statement as an expression
Expr_Stmt(stmt) == [k |-> "Stmt", stmt |-> stmt]
\* custom syntax: the callback of the host, given by the result it returns
Expr_Custom(result) == [k |-> "Custom", result |-> result]
Expr_True == [k |-> "True"]
Expr_False == [k |-> "False"]
Expr_Unit == [k |-> "Unit"]
Expr_Expr(x) == [k |-> "Expr", x |-> x]
Expr_Variable(name, index) ==
    [k |-> "Variable", name |-> name, modules |-> None, index |-> index]
Expr_QualifiedVariable(root, mindex, name) ==
    [k |-> "Variable", name |-> name,
     modules |-> [k |-> "ModuleRef", root |-> root, index |-> mindex], index |-> 0]
Expr_Assignment(lhs, op, rhs) == [k |-> "Assignment", lhs |-> lhs, op |-> op, rhs |-> rhs]
Expr_Array(items) == [k |-> "Array", items |-> items]
Expr_Map(keys, items) == [k |-> "Map", keys |-> keys, items |-> items]
Expr_Index(lhs, rhs) == [k |-> "Index", lhs |-> lhs, rhs |-> rhs]
Expr_Dot(lhs, rhs) == [k |-> "Dot", lhs |-> lhs, rhs |-> rhs]
Expr_Property(prop) == [k |-> "Property", prop |-> prop]
Expr_FnCall(name, args) == [k |-> "FnCall", name |-> name, modules |-> None, args |-> args]
Expr_QualifiedFnCall(root, mindex, name, args) ==
    [k |-> "FnCall", name |-> name,
     modules |-> [k |-> "ModuleRef", root |-> root, index |-> mindex], args |-> args]
Expr_And(lhs, rhs) == [k |-> "And", lhs |-> lhs, rhs |-> rhs]
Expr_Or(lhs, rhs) == [k |-> "Or", lhs |-> lhs, rhs |-> rhs]
Expr_In(lhs, rhs) == [k |-> "In", lhs |-> lhs, rhs |-> rhs]

Stmt_Noop == [k |-> "Noop"]
Stmt_Expr(expr) == [k |-> "Expr", expr |-> expr]
Stmt_Block(stmts) == [k |-> "Block", stmts |-> stmts]
Stmt_IfThenElse(expr, if_block, else_block) ==
    [k |-> "IfThenElse", expr |-> expr, if_block |-> if_block, else_block |-> else_block]
Stmt_While(expr, body) == [k |-> "While", expr |-> expr, body |-> body]
Stmt_Loop(body) == [k |-> "Loop", body |-> body]
Stmt_For(name, expr, stmt) == [k |-> "For", name |-> name, expr |-> expr, stmt |-> stmt]
Stmt_Continue == [k |-> "Continue"]
Stmt_Break == [k |-> "Break"]
Stmt_ReturnWithVal(rt, expr) == [k |-> "ReturnWithVal", rt |-> rt, expr |-> expr]
Stmt_Let(name, expr) == [k |-> "Let", name |-> name, expr |-> expr]
Stmt_Const(name, expr) == [k |-> "Const", name |-> name, expr |-> expr]
Stmt_Import(expr, name) == [k |-> "Import", expr |-> expr, name |-> name]
\* an export list: the variables exported, each with the name it is renamed to
\* (Some(name)) or None
Some(x) == [k |-> "Some", v |-> x]
Exported(id, rename) == [id |-> id, rename |-> rename]
Stmt_Export(list) == [k |-> "Export", list |-> list]

KEYWORD_THIS == "this"
KEYWORD_EVAL == "eval"
FN_GET == "get$"
FN_SET == "set$"
FN_IDX_GET == "index$get$"
FN_IDX_SET == "index$set$"
\* the name of the getter and of the setter of a property: the prefix, then the
\* characters of the name of the property
make_getter(id) == <<FN_GET>> \o id
make_setter(id) == <<FN_SET>> \o id

\* Expr::is_constant of the parser
RECURSIVE is_constant(_)
is_constant(expr) ==
    CASE expr.k \in {"IntegerConstant", "StringConstant", "CharConstant",
                     "True", "False", "Unit"} -> TRUE
      [] expr.k \in {"Array", "Map"} ->
            \A i \in 1..Len(expr.items) : is_constant(expr.items[i])
      [] OTHER -> FALSE

(***************************************************************************)
(* Scope and Imports.  A reference into them (the &mut Dynamic the search  *)
(* returns) is the place it points to.                                     *)
(***************************************************************************)
\* an entry of the scope as Scope::push leaves it: no alias
Entry(name, typ, value) == [name |-> name, typ |-> typ, value |-> value, alias |-> None]

\* Scope::get_index: the most recently pushed entry with that name (0 = none)
get_index(sc, name) ==
    LET hits == {i \in 1..Len(sc) : sc[i].name = name} IN
    IF hits = {} THEN 0 ELSE CHOOSE i \in hits : \A j \in hits : j <= i

\* Scope::set_entry_alias
set_entry_alias(sc, index, alias) == [sc EXCEPT ![index].alias = Some(alias)]

\* Scope::rewind and Vec::truncate
rewind(sc, size) == IF size < Len(sc) THEN SubSeq(sc, 1, size) ELSE sc

ScopeRef(i) == [root |-> "scope", i |-> i]
ThisRef == [root |-> "this"]
ModuleRef(i, name) == [root |-> "module", i |-> i, name |-> name]
\* a value owned by a local of the chain walker
LocalRef(i) == [root |-> "local", i |-> i]

\* reading and writing through a reference
deref(c, ref) ==
    CASE ref.root = "scope" -> c.scope[ref.i].value
      [] ref.root = "this" -> c.this
      [] ref.root = "module" -> c.mods[ref.i].module.vars[ref.name]
      [] ref.root = "local" -> c.locals[ref.i]

store(c, ref, value) ==
    CASE ref.root = "scope" -> [c EXCEPT !.scope[ref.i].value = value]
      [] ref.root = "this" -> [c EXCEPT !.this = value]
      [] ref.root = "module" -> [c EXCEPT !.mods[ref.i].module.vars[ref.name] = value]
      [] ref.root = "local" -> [c EXCEPT !.locals[ref.i] = value]

\* a search of the imports that finds the import first pushed with the alias
search_imports_mut_oldest(md, st, modules) ==
    LET index == IF st.always_search THEN 0 ELSE modules.index IN
    IF index # 0
    THEN IF index > Len(md) THEN Err(E("panic")) ELSE Ok(Len(md) - index + 1)
    ELSE LET hits == {i \in 1..Len(md) : md[i].alias = modules.root} IN
         IF hits = {} THEN Err(E("ErrorModuleNotFound"))
         ELSE Ok(CHOOSE i \in hits : \A j \in hits : i <= j)

\* the position in mods of the root module of a qualified name
search_imports_mut(md, st, modules) ==
    LET index == IF st.always_search THEN 0 ELSE modules.index IN
    IF index # 0
    THEN IF index > Len(md) THEN Err(E("panic")) ELSE Ok(Len(md) - index + 1)
    ELSE LET hits == {i \in 1..Len(md) : md[i].alias = modules.root} IN
         IF hits = {} THEN Err(E("ErrorModuleNotFound"))
         ELSE Ok(CHOOSE i \in hits : \A j \in hits : j <= i)

\* a search that looks for the name whatever offset the expression carries
search_scope_only_by_name(c, expr) ==
    IF expr.name = KEYWORD_THIS
    THEN IF c.this # NoThis
         THEN [ok |-> TRUE, ref |-> ThisRef, name |-> KEYWORD_THIS, typ |-> "Normal"]
         ELSE Err(E("ErrorUnboundedThis"))
    ELSE IF get_index(c.scope, expr.name) = 0 THEN Err(E("ErrorVariableNotFound"))
    ELSE [ok |-> TRUE, ref |-> ScopeRef(get_index(c.scope, expr.name)),
          name |-> expr.name, typ |-> c.scope[get_index(c.scope, expr.name)].typ]

search_scope_only(c, expr) ==
    IF expr.name = KEYWORD_THIS
    THEN IF c.this # NoThis
         THEN [ok |-> TRUE, ref |-> ThisRef, name |-> KEYWORD_THIS, typ |-> "Normal"]
         ELSE Err(E("ErrorUnboundedThis"))
    ELSE LET index == IF c.state.always_search THEN 0 ELSE expr.index
             found == get_index(c.scope, expr.name)
         IN  IF index # 0
             THEN IF index > Len(c.scope) THEN Err(E("panic"))
                  ELSE LET i == Len(c.scope) - index + 1 IN
                       [ok |-> TRUE, ref |-> ScopeRef(i), name |-> expr.name,
                        typ |-> c.scope[i].typ]
             ELSE IF found = 0 THEN Err(E("ErrorVariableNotFound"))
             ELSE [ok |-> TRUE, ref |-> ScopeRef(found), name |-> expr.name,
                   typ |-> c.scope[found].typ]

search_namespace(c, expr) ==
    IF expr.modules # None
    THEN LET m == search_imports_mut(c.mods, c.state, expr.modules) IN
         IF ~m.ok THEN m
         ELSE IF expr.name \notin DOMAIN c.mods[m.v].module.vars
         THEN Err(E("ErrorVariableNotFound"))
         ELSE [ok |-> TRUE, ref |-> ModuleRef(m.v, expr.name), name |-> expr.name,
               typ |-> "Constant"]
    ELSE search_scope_only(c, expr)

(***************************************************************************)
(* Operators on values that the evaluator calls in other files.            *)
(***************************************************************************)
\* run_builtin_op_assignment: the new value of lhs, or None when not built in
run_builtin_op_assignment(op, lhs, rhs) ==
    IF lhs.t = "int" /\ rhs.t = "int" /\ op = "+=" THEN IntVal(lhs.i + rhs.i)
    ELSE IF lhs.t = "int" /\ rhs.t = "int" /\ op = "-=" THEN IntVal(lhs.i - rhs.i)
    ELSE None

\* the operator without `=`: &op[..op.len() - 1] on the op-assignment tokens of
\* the parser
op_without_eq(op) ==
    CASE op = "+=" -> "+" [] op = "-=" -> "-" [] op = "*=" -> "*" [] op = "/=" -> "/"
      [] op = "%=" -> "%" [] op = "~=" -> "~" [] op = "<<=" -> "<<" [] op = ">>=" -> ">>"
      [] op = "&=" -> "&" [] op = "|=" -> "|" [] op = "^=" -> "^"

\* exec_fn_call of a binary operator
exec_fn_call_op(op, x, y) ==
    IF x.t = "int" /\ y.t = "int" /\ op = "+" THEN Ok(IntVal(x.i + y.i))
    ELSE IF x.t = "int" /\ y.t = "int" /\ op = "-" THEN Ok(IntVal(x.i - y.i))
    ELSE IF x.t = "str" /\ y.t = "char" /\ op = "+" THEN Ok(StrVal(Append(x.s, y.c)))
    ELSE Err(ErrorFunctionNotFound(op))

\* a native method registered for (op, type of lhs, type of rhs): its effect on lhs
native_op_method(op, lhs, rhs) == Variant(op)

\* the history: a call handed to the call-resolution collaborator, the name of
\* the function as a sequence
Called(name, args) == [ev |-> "call", name |-> name, args |-> args]
log(c, ev) == [c EXCEPT !.trace = Append(@, ev)]

\* what exec_fn_call answers: (value, updated), and the first argument as the
\* function called leaves it
FnOk(v, updated, this) == [ok |-> TRUE, v |-> v, updated |-> updated, this |-> this]

is_host(v) == v.t = "variant" /\ v.tag = "host"
put(m, key, v) == [k \in DOMAIN m \cup {key} |-> IF k = key THEN v ELSE m[k]]

\* exec_fn_call of get$prop: the host registers getters for its type only; a
\* getter reads a field; a property without getter is a DotExpr error
exec_fn_call_getter(prop, obj) ==
    IF is_host(obj) /\ prop \in engine.getters
    THEN FnOk(IF prop \in DOMAIN obj.f THEN obj.f[prop] ELSE UnitVal,
              engine.getter_updates, obj)
    ELSE Err(E("ErrorDotExpr"))

\* exec_fn_call of set$prop: a setter writes a field, or raises an error of its
\* own; a property without setter (unknown or read-only) is a DotExpr error
exec_fn_call_setter(prop, obj, v) ==
    IF is_host(obj) /\ prop \in engine.setters
    THEN IF prop \in engine.setter_errs THEN Err(E("ErrorRuntime"))
         ELSE FnOk(UnitVal, TRUE, HostVal(put(obj.f, prop, v)))
    ELSE Err(E("ErrorDotExpr"))

\* the methods registered for arrays: len() and push(item)
exec_fn_call_method(name, obj, args) ==
    CASE name = "len" /\ obj.t = "array" /\ args = <<>> ->
            FnOk(IntVal(Len(obj.a)), FALSE, obj)
      [] name = "push" /\ obj.t = "array" /\ Len(args) = 1 ->
            FnOk(UnitVal, TRUE, ArrayVal(Append(obj.a, args[1])))
      [] OTHER -> Err(ErrorFunctionNotFound(name))

\* the scripts handed to eval: the variable a script declares (None when it
\* declares none) and the value it returns
EvalScripts == {<<"l", "e", "t">>, <<"4", "2">>}
script_declares(script) ==
    IF script = <<"l", "e", "t">> THEN Entry("z", "Normal", IntVal(9))
    ELSE None
script_value(script) == IF script = <<"4", "2">> THEN IntVal(42) ELSE UnitVal

(***************************************************************************)
(* eval_expr.  Every arm takes the context after the governor tick and     *)
(* returns the result with the context it leaves.                          *)
(***************************************************************************)
R(res, c) == [res |-> res, c |-> c]

RECURSIVE eval_expr(_, _)
RECURSIVE eval_items(_, _, _)

\* the elements of an array or map literal, in order, up to the first error
eval_items(c, items, n) ==
    IF n = 0 THEN R(Ok(<<>>), c)
    ELSE LET before == eval_items(c, items, n - 1) IN
         IF ~before.res.ok THEN before
         ELSE LET item == eval_expr(before.c, items[n]) IN
              IF ~item.res.ok THEN item
              ELSE R(Ok(Append(before.res.v, item.res.v)), item.c)

expr_Variable(c, expr) ==
    IF expr.name = KEYWORD_THIS
    THEN IF c.this # NoThis THEN R(Ok(c.this), c) ELSE R(Err(E("ErrorUnboundedThis")), c)
    ELSE LET s == search_namespace(c, expr) IN
         IF ~s.ok THEN R(s, c) ELSE R(Ok(deref(c, s.ref)), c)

\* the call of the operator without `=` on (a clone of lhs, rhs): the result is
\* stored into lhs
op_assignment_call(c, ref, call) ==
    IF ~call.ok THEN R(call, c) ELSE R(Ok(UnitVal), store(c, ref, call.v))

\* an op-assignment that tries the built-in implementation before the native method
op_assignment_builtin_first(c, ref, op, lhs_val, rhs_val) ==
    IF run_builtin_op_assignment(op, lhs_val, rhs_val) # None
    THEN R(Ok(UnitVal), store(c, ref, run_builtin_op_assignment(op, lhs_val, rhs_val)))
    ELSE IF <<op, type_id(lhs_val), type_id(rhs_val)>> \in engine.native_ops
    THEN R(Ok(UnitVal), store(log(c, Called(<<op>>, <<lhs_val, rhs_val>>)), ref,
                              native_op_method(op, lhs_val, rhs_val)))
    ELSE op_assignment_call(log(c, Called(<<op_without_eq(op)>>, <<lhs_val, rhs_val>>)), ref,
                            exec_fn_call_op(op_without_eq(op), lhs_val, rhs_val))

\* the op-assignment on a Normal variable: native method, built-in, or the operator
op_assignment(c, ref, op, lhs_val, rhs_val) ==
    IF <<op, type_id(lhs_val), type_id(rhs_val)>> \in engine.native_ops
    THEN R(Ok(UnitVal), store(log(c, Called(<<op>>, <<lhs_val, rhs_val>>)), ref,
                              native_op_method(op, lhs_val, rhs_val)))
    ELSE IF run_builtin_op_assignment(op, lhs_val, rhs_val) # None
    THEN R(Ok(UnitVal), store(c, ref, run_builtin_op_assignment(op, lhs_val, rhs_val)))
    ELSE op_assignment_call(log(c, Called(<<op_without_eq(op)>>, <<lhs_val, rhs_val>>)), ref,
                            exec_fn_call_op(op_without_eq(op), lhs_val, rhs_val))

\* an assignment that does not look at the entry type
assign_var_unchecked(c, s, t, expr, rhs_val) ==
    IF t.err # "none" THEN R(Err(E(t.err)), c)
    ELSE IF expr.op = "" THEN R(Ok(UnitVal), store(c, s.ref, rhs_val))
    ELSE op_assignment(c, s.ref, expr.op, deref(c, s.ref), rhs_val)

\* var op= rhs, once the variable is found and the governor has ticked
assign_var(c, s, t, expr, rhs_val) ==
    IF t.err # "none" THEN R(Err(E(t.err)), c)
    ELSE IF s.typ = "Constant" THEN R(Err(E("ErrorAssignmentToConstant")), c)
    ELSE IF expr.op = "" THEN R(Ok(UnitVal), store(c, s.ref, rhs_val))
    ELSE op_assignment(c, s.ref, expr.op, deref(c, s.ref), rhs_val)

\* var op= rhs, once rhs is evaluated
assign_found(c, s, expr, rhs_val) ==
    IF ~s.ok THEN R(s, c)
    ELSE assign_var([c EXCEPT !.state = inc_operations(c.state).state], s,
                    inc_operations(c.state), expr, rhs_val)

\* var op= rhs
expr_AssignmentVar(rhs, expr) ==
    IF ~rhs.res.ok THEN rhs
    ELSE assign_found(rhs.c, search_namespace(rhs.c, expr.lhs), expr, rhs.res.v)

(***************************************************************************)
(* The chain walker.  A Target is the place it points to: a root (a        *)
(* reference into the scope, the imports, this, or a local of the walker)  *)
(* and the path of array positions and map keys from the root's value.     *)
(***************************************************************************)
ArrayStep(i) == [in |-> "array", i |-> i]
MapStep(key) == [in |-> "map", key |-> key]

Target_Ref(root, path) == [tk |-> "Ref", root |-> root, path |-> path]
Target_Value(root) == [tk |-> "Value", root |-> root, path |-> <<>>]
Target_StringChar(root, path, offset, ch) ==
    [tk |-> "StringChar", root |-> root, path |-> path, offset |-> offset, ch |-> ch]

RECURSIVE get_at(_, _)
get_at(v, path) ==
    IF path = <<>> THEN v
    ELSE IF Head(path).in = "array" THEN get_at(v.a[Head(path).i], Tail(path))
    ELSE get_at(v.m[Head(path).key], Tail(path))

RECURSIVE set_at(_, _, _)
set_at(v, path, x) ==
    IF path = <<>> THEN x
    ELSE IF Head(path).in = "array"
    THEN ArrayVal([v.a EXCEPT ![Head(path).i] = set_at(v.a[Head(path).i], Tail(path), x)])
    ELSE MapVal([v.m EXCEPT ![Head(path).key] = set_at(v.m[Head(path).key], Tail(path), x)])

\* Target::as_mut: the value the target stands for
as_mut(c, target) ==
    IF target.tk = "StringChar" THEN target.ch ELSE get_at(deref(c, target.root), target.path)

\* Target::from of an owned value: the value lives in a local
target_from(c, v) ==
    [ok |-> TRUE, c |-> [c EXCEPT !.locals = Append(c.locals, v)],
     target |-> Target_Value(LocalRef(Len(c.locals) + 1))]

\* Target::from of a mutable reference to a value held by a local of the walker
target_from_mut(c, v) ==
    [ok |-> TRUE, c |-> [c EXCEPT !.locals = Append(c.locals, v)],
     target |-> Target_Ref(LocalRef(Len(c.locals) + 1), <<>>)]

TOk(c, target) == [ok |-> TRUE, c |-> c, target |-> target]
TErr(c, e) == [ok |-> FALSE, c |-> c, e |-> e]

\* a set_value that leaves the target as it was
set_value_lost(c, target, new_val) == R(Ok(UnitVal), c)

\* the history: the string of a StringChar target is collected anew
Rebuilt == [ev |-> "rebuild"]

\* a set_value that collects the string anew whatever the character
set_value_rebuilding(c, target, new_val) ==
    CASE target.tk = "Ref" ->
            R(Ok(UnitVal),
              store(c, target.root, set_at(deref(c, target.root), target.path, new_val)))
      [] target.tk = "Value" -> R(Err(E("ErrorAssignmentToUnknownLHS")), c)
      [] target.tk = "StringChar" ->
            IF new_val.t # "char" THEN R(Err(E("ErrorCharMismatch")), c)
            ELSE R(Ok(UnitVal),
                   store(log(c, Rebuilt), target.root,
                         set_at(deref(c, target.root), target.path,
                                StrVal([get_at(deref(c, target.root), target.path).s
                                          EXCEPT ![target.offset + 1] = new_val.c]))))

\* Target::set_value: the character written is compared with the character of
\* the string at the offset, not with the copy the target carries
set_value(c, target, new_val) ==
    CASE target.tk = "Ref" ->
            R(Ok(UnitVal),
              store(c, target.root, set_at(deref(c, target.root), target.path, new_val)))
      [] target.tk = "Value" -> R(Err(E("ErrorAssignmentToUnknownLHS")), c)
      [] target.tk = "StringChar" ->
            IF get_at(deref(c, target.root), target.path).t # "str"
            THEN R(Err(E("panic")), c)
            ELSE IF new_val.t # "char" THEN R(Err(E("ErrorCharMismatch")), c)
            ELSE IF target.offset >= Len(get_at(deref(c, target.root), target.path).s)
            THEN R(Err(E("panic")), c)
            ELSE IF get_at(deref(c, target.root), target.path).s[target.offset + 1]
                        # new_val.c
            THEN R(Ok(UnitVal),
                   store(log(c, Rebuilt), target.root,
                         set_at(deref(c, target.root), target.path,
                                StrVal([get_at(deref(c, target.root), target.path).s
                                          EXCEPT ![target.offset + 1] = new_val.c]))))
            ELSE R(Ok(UnitVal), c)

\* exec_fn_call of index$get$: the host registers an indexer for its type only; it
\* reads the field a string names and raises an error of its own for another index
exec_fn_call_idx_get(val, idx) ==
    IF ~(is_host(val) /\ engine.idx_get) THEN Err(ErrorFunctionNotFound(FN_IDX_GET))
    ELSE IF idx.t # "str" THEN Err(E("ErrorRuntime"))
    ELSE FnOk(IF idx.s \in DOMAIN val.f THEN val.f[idx.s] ELSE UnitVal, FALSE, val)

\* exec_fn_call of index$set$: it writes the field a string names and raises an
\* error of its own for another index or for the value (); the setter of an
\* engine may also fail whenever called, with the error idx_set_err
exec_fn_call_idx_set(val, idx, new_val) ==
    IF ~(is_host(val) /\ engine.idx_set) THEN Err(ErrorFunctionNotFound(FN_IDX_SET))
    ELSE IF engine.idx_set_err # None THEN Err(engine.idx_set_err.v)
    ELSE IF idx.t # "str" \/ new_val = UnitVal THEN Err(E("ErrorRuntime"))
    ELSE FnOk(UnitVal, TRUE, HostVal(put(val.f, idx.s, new_val)))

\* Map::entry(index).or_insert(Default::default())
or_insert(c, target, key) ==
    IF key \in DOMAIN as_mut(c, target).m THEN c
    ELSE store(c, target.root,
               set_at(deref(c, target.root), target.path,
                      MapVal([k \in DOMAIN as_mut(c, target).m \cup {key} |->
                                IF k = key THEN UnitVal ELSE as_mut(c, target).m[k]])))

\* an indexing of arrays that takes the nearest element for an index out of range
get_indexed_clamped(c, target, val, idx, create) ==
    IF val.t = "array" /\ idx.t = "int" /\ Len(val.a) > 0
    THEN TOk(c, Target_Ref(target.root,
                           Append(target.path,
                                  ArrayStep(IF idx.i < 0 THEN 1
                                            ELSE IF idx.i >= Len(val.a) THEN Len(val.a)
                                            ELSE idx.i + 1))))
    ELSE TErr(c, E("ErrorIndexingType"))

\* get_indexed_mut after its governor tick, val being the indexed value
get_indexed(c, target, val, idx, create) ==
    CASE val.t = "array" ->
            IF idx.t # "int" THEN TErr(c, E("ErrorNumericIndexExpr"))
            ELSE IF idx.i >= 0 /\ idx.i < Len(val.a)
            THEN TOk(c, Target_Ref(target.root, Append(target.path, ArrayStep(idx.i + 1))))
            ELSE TErr(c, ErrorArrayBounds(Len(val.a), idx.i))
      [] val.t = "map" ->
            IF idx.t # "str" THEN TErr(c, E("ErrorStringIndexExpr"))
            ELSE IF create
            THEN TOk(or_insert(c, target, idx.s),
                     Target_Ref(target.root, Append(target.path, MapStep(idx.s))))
            ELSE IF idx.s \in DOMAIN val.m
            THEN TOk(c, Target_Ref(target.root, Append(target.path, MapStep(idx.s))))
            ELSE target_from(c, UnitVal)
      [] val.t = "str" ->
            IF idx.t # "int" THEN TErr(c, E("ErrorNumericIndexExpr"))
            ELSE IF idx.i >= 0 /\ idx.i < Len(val.s)
            THEN TOk(c, Target_StringChar(target.root, target.path, idx.i,
                                          CharVal(val.s[idx.i + 1])))
            ELSE TErr(c, ErrorStringBounds(Len(val.s), idx.i))
      [] OTHER ->
            IF exec_fn_call_idx_get(val, idx).ok
            THEN target_from(log(c, Called(<<FN_IDX_GET>>, <<val, idx>>)),
                             exec_fn_call_idx_get(val, idx).v)
            ELSE IF exec_fn_call_idx_get(val, idx).e.k = "ErrorFunctionNotFound"
            THEN TErr(log(c, Called(<<FN_IDX_GET>>, <<val, idx>>)), E("ErrorIndexingType"))
            ELSE TErr(log(c, Called(<<FN_IDX_GET>>, <<val, idx>>)),
                      exec_fn_call_idx_get(val, idx).e)

get_indexed_mut(c, target, idx, create) ==
    IF inc_operations(c.state).err # "none"
    THEN TErr([c EXCEPT !.state = inc_operations(c.state).state],
              E(inc_operations(c.state).err))
    ELSE get_indexed([c EXCEPT !.state = inc_operations(c.state).state],
                     target, as_mut(c, target), idx, create)

\* the result of a step of the walker: (value, may be changed), or an error
CR(res, changed, c) == [res |-> res, changed |-> changed, c |-> c]

RECURSIVE eval_dot_index_chain_helper(_, _, _, _, _, _)

\* a walk that goes on from a copy of the element
chain_next_copied(obj, expr, idx_values, next_chain, new_val) ==
    IF ~obj.ok THEN CR(Err(obj.e), FALSE, obj.c)
    ELSE eval_dot_index_chain_helper(
           target_from_mut(obj.c, as_mut(obj.c, obj.target)).c,
           target_from_mut(obj.c, as_mut(obj.c, obj.target)).target,
           expr, idx_values, next_chain, new_val)

\* xxx[idx].expr... | xxx[idx][expr]... | {xxx:map}.sub_lhs.expr: walk on from obj
chain_next(obj, expr, idx_values, next_chain, new_val) ==
    IF ~obj.ok THEN CR(Err(obj.e), FALSE, obj.c)
    ELSE eval_dot_index_chain_helper(obj.c, obj.target, expr, idx_values, next_chain,
                                     new_val)

\* the first argument of a call, as the function called leaves it, is written to
\* the place of the target (the character of a StringChar target is a copy)
write_this(c, target, this) ==
    IF target.tk = "StringChar" THEN c
    ELSE store(c, target.root, set_at(deref(c, target.root), target.path, this))

\* the end of an index setter call: the setter leaves its first argument in the
\* place of the target, and the step yields ((), false)
idx_set_reported(c, target, call) ==
    IF call.ok THEN CR(Ok(UnitVal), FALSE, write_this(c, target, call.this))
    ELSE CR(call, FALSE, c)

\* an end of the index setter call that reports the absence of the setter
idx_set_strict(c, target, call) ==
    IF call.ok THEN CR(Ok(UnitVal), FALSE, write_this(c, target, call.this))
    ELSE CR(call, FALSE, c)

\* the end of an index setter call whose absence is no error: the error that
\* is passed over is FunctionNotFound of the index setter itself
idx_set_swallowed(c, target, call) ==
    IF ~call.ok /\ call.e = ErrorFunctionNotFound(FN_IDX_SET)
    THEN CR(Ok(UnitVal), FALSE, c)
    ELSE idx_set_reported(c, target, call)

\* the index setter is called on the value of the target, the index and the value
idx_set_call(c, target, idx_val, new_val) ==
    log(c, Called(<<FN_IDX_SET>>, <<as_mut(c, target), idx_val, new_val>>))

\* the end of a write step: (Unit, changed) unless the write failed
chain_written(set, changed) ==
    IF ~set.res.ok THEN CR(set.res, FALSE, set.c) ELSE CR(Ok(UnitVal), changed, set.c)

\* xxx[rhs] = new_val
chain_index_set(c, target, obj, idx_val, new_val) ==
    IF obj.ok /\ obj.target.tk = "Value"
    THEN idx_set_swallowed(idx_set_call(obj.c, target, idx_val, new_val), target,
                           exec_fn_call_idx_set(as_mut(obj.c, target), idx_val, new_val))
    ELSE IF obj.ok THEN chain_written(set_value(obj.c, obj.target, new_val), FALSE)
    ELSE IF obj.e.k = "ErrorIndexingType"
    THEN idx_set_reported(idx_set_call(obj.c, target, idx_val, new_val), target,
                          exec_fn_call_idx_set(as_mut(obj.c, target), idx_val, new_val))
    ELSE CR(Err(obj.e), FALSE, obj.c)

\* a write to a map entry that stores nothing
chain_map_set_lost(obj, new_val) ==
    IF ~obj.ok THEN CR(Err(obj.e), FALSE, obj.c) ELSE CR(Ok(UnitVal), TRUE, obj.c)

\* {xxx:map}.id = new_val
chain_map_set(obj, new_val) ==
    IF ~obj.ok THEN CR(Err(obj.e), FALSE, obj.c)
    ELSE chain_written(set_value(obj.c, obj.target, new_val), TRUE)

\* xxx[rhs] | {xxx:map}.id
chain_get(obj) ==
    IF ~obj.ok THEN CR(Err(obj.e), FALSE, obj.c)
    ELSE CR(Ok(as_mut(obj.c, obj.target)), FALSE, obj.c)

\* Vec::pop of the index values
idx_pop(idx_values) == SubSeq(idx_values, 1, Len(idx_values) - 1)
idx_last(idx_values) == idx_values[Len(idx_values)]

next_chain_of(rhs) ==
    CASE rhs.k = "Index" -> "Index" [] rhs.k = "Dot" -> "Dot" [] OTHER -> "None"

\* the history: an index value is popped by a level of the walk
Popped(v) == [ev |-> "pop", v |-> v]

\* the end of a call whose value is the result of the step
chain_called(c, target, call, changed) ==
    IF ~call.ok THEN CR(call, FALSE, c)
    ELSE CR(Ok(call.v), changed, write_this(c, target, call.this))

\* make_method_call: xxx.fn_name(arg_expr_list), the arguments in idx_val
make_method_call(c, target, rhs, idx_val) ==
    chain_called(log(c, Called(<<rhs.name>>, <<as_mut(c, target)>> \o idx_val.a)), target,
                 exec_fn_call_method(rhs.name, as_mut(c, target), idx_val.a),
                 exec_fn_call_method(rhs.name, as_mut(c, target), idx_val.a).ok
                   /\ exec_fn_call_method(rhs.name, as_mut(c, target), idx_val.a).updated)

\* a write to a property that passes over the absence of the setter
chain_prop_set_quiet(c, target, prop, new_val) ==
    IF exec_fn_call_setter(prop, as_mut(c, target), new_val).ok
    THEN CR(Ok(exec_fn_call_setter(prop, as_mut(c, target), new_val).v), TRUE,
            write_this(c, target, exec_fn_call_setter(prop, as_mut(c, target), new_val).this))
    ELSE CR(Ok(UnitVal), TRUE, c)

\* xxx.id = ???
chain_prop_set(c, target, prop, new_val) ==
    chain_called(log(c, Called(make_setter(prop), <<as_mut(c, target), new_val>>)), target,
                 exec_fn_call_setter(prop, as_mut(c, target), new_val), TRUE)

\* xxx.id
chain_prop_get(c, target, prop) ==
    chain_called(log(c, Called(make_getter(prop), <<as_mut(c, target)>>)), target,
                 exec_fn_call_getter(prop, as_mut(c, target)), FALSE)

\* the value a method call returned is the target the walk goes on from
chain_from_call(call, rhs, idx_values, new_val, is_map) ==
    IF ~call.res.ok THEN call
    ELSE chain_next(IF is_map THEN target_from(call.c, call.res.v)
                    ELSE target_from_mut(call.c, call.res.v),
                    rhs.rhs, idx_pop(idx_values), next_chain_of(rhs), new_val)

\* the setter has been called to feed the value back: its absence is no error
chain_fed_back(sub, target, c, set) ==
    IF set.ok THEN CR(sub.res, sub.changed, write_this(c, target, set.this))
    ELSE IF set.e.k = "ErrorDotExpr" THEN CR(sub.res, sub.changed, c)
    ELSE CR(set, FALSE, c)

\* a write-back that calls the setter whenever the sub-chain has succeeded
chain_write_back_always(sub, target, prop, updated, val) ==
    IF ~sub.res.ok THEN sub
    ELSE chain_fed_back(sub, target,
                        log(sub.c, Called(make_setter(prop),
                                          <<as_mut(sub.c, target), deref(sub.c, val)>>)),
                        exec_fn_call_setter(prop, as_mut(sub.c, target), deref(sub.c, val)))

\* xxx.prop[expr] | xxx.prop.expr: the sub-chain has been walked on the value val
\* of the getter, which is fed back via the setter if it may have been updated
chain_write_back(sub, target, prop, updated, val) ==
    IF ~sub.res.ok THEN sub
    ELSE IF ~(updated \/ sub.changed) THEN sub
    ELSE chain_fed_back(sub, target,
                        log(sub.c, Called(make_setter(prop),
                                          <<as_mut(sub.c, target), deref(sub.c, val)>>)),
                        exec_fn_call_setter(prop, as_mut(sub.c, target), deref(sub.c, val)))

\* the history: the walk of the sub-chain below a property has returned
Walked(res, changed) == [ev |-> "walked", res |-> res, changed |-> changed]
chain_walked(sub) == CR(sub.res, sub.changed, log(sub.c, Walked(sub.res, sub.changed)))

\* xxx.prop[expr] | xxx.prop.expr: the value of the getter is a local of the walk
chain_got_local(obj, target, rhs, idx_values, new_val, updated) ==
    chain_write_back(chain_walked(eval_dot_index_chain_helper(
                                    obj.c, obj.target, rhs.rhs, idx_pop(idx_values),
                                    next_chain_of(rhs), new_val)),
                     target, rhs.lhs.prop, updated, obj.target.root)

\* xxx.prop[expr] | xxx.prop.expr: the getter has been called
chain_got(c, target, rhs, idx_values, new_val, call) ==
    IF ~call.ok THEN CR(call, FALSE, c)
    ELSE chain_got_local(target_from_mut(write_this(c, target, call.this), call.v), target,
                         rhs, idx_values, new_val, call.updated)

\* xxx.prop[expr] | xxx.prop.expr
chain_getter(c, target, rhs, idx_values, new_val) ==
    chain_got(log(c, Called(make_getter(rhs.lhs.prop), <<as_mut(c, target)>>)), target,
              rhs, idx_values, new_val,
              exec_fn_call_getter(rhs.lhs.prop, as_mut(c, target)))

\* the match of the walker on the chain type and the next node, idx_val popped
chain_step(c, target, rhs, idx_values, chain_type, new_val) ==
    CASE chain_type = "Index" /\ rhs.k \in {"Dot", "Index"} ->
            chain_next(get_indexed_mut(c, target, idx_last(idx_values), FALSE),
                       rhs.rhs, idx_pop(idx_values), next_chain_of(rhs), new_val)
      [] chain_type = "Index" /\ rhs.k \notin {"Dot", "Index"} /\ new_val # None ->
            chain_index_set(c, target,
                            get_indexed_mut(c, target, idx_last(idx_values), TRUE),
                            idx_last(idx_values), new_val)
      [] chain_type = "Index" /\ rhs.k \notin {"Dot", "Index"} /\ new_val = None ->
            chain_get(get_indexed_mut(c, target, idx_last(idx_values), FALSE))
      [] chain_type = "Dot" /\ rhs.k = "FnCall" /\ rhs.modules = None ->
            make_method_call(c, target, rhs, idx_last(idx_values))
      [] chain_type = "Dot" /\ rhs.k = "FnCall" /\ rhs.modules # None ->
            CR(Err(E("panic")), FALSE, c)
      [] chain_type = "Dot" /\ rhs.k = "Property" /\ as_mut(c, target).t = "map"
           /\ new_val # None ->
            chain_map_set(get_indexed_mut(c, target, StrVal(rhs.prop), TRUE), new_val)
      [] chain_type = "Dot" /\ rhs.k = "Property" /\ as_mut(c, target).t = "map"
           /\ new_val = None ->
            chain_get(get_indexed_mut(c, target, StrVal(rhs.prop), FALSE))
      [] chain_type = "Dot" /\ rhs.k \in {"Dot", "Index"} /\ as_mut(c, target).t = "map"
           /\ rhs.lhs.k = "Property" ->
            chain_next(get_indexed_mut(c, target, StrVal(rhs.lhs.prop), FALSE),
                       rhs.rhs, idx_pop(idx_values), next_chain_of(rhs), new_val)
      [] chain_type = "Dot" /\ rhs.k = "Property" /\ as_mut(c, target).t # "map"
           /\ new_val # None ->
            chain_prop_set(c, target, rhs.prop, new_val)
      [] chain_type = "Dot" /\ rhs.k = "Property" /\ as_mut(c, target).t # "map"
           /\ new_val = None ->
            chain_prop_get(c, target, rhs.prop)
      [] chain_type = "Dot" /\ rhs.k \in {"Dot", "Index"} /\ as_mut(c, target).t = "map"
           /\ rhs.lhs.k = "FnCall" /\ rhs.lhs.modules = None ->
            chain_from_call(make_method_call(c, target, rhs.lhs, idx_last(idx_values)),
                            rhs, idx_values, new_val, TRUE)
      [] chain_type = "Dot" /\ rhs.k \in {"Dot", "Index"} /\ as_mut(c, target).t # "map"
           /\ rhs.lhs.k = "Property" ->
            chain_getter(c, target, rhs, idx_values, new_val)
      [] chain_type = "Dot" /\ rhs.k \in {"Dot", "Index"} /\ as_mut(c, target).t # "map"
           /\ rhs.lhs.k = "FnCall" /\ rhs.lhs.modules = None ->
            chain_from_call(make_method_call(c, target, rhs.lhs, idx_last(idx_values)),
                            rhs, idx_values, new_val, FALSE)
      [] chain_type = "Dot" /\ rhs.k \in {"Dot", "Index"}
           /\ (rhs.lhs.k \notin {"Property", "FnCall"}
                 \/ (rhs.lhs.k = "FnCall" /\ rhs.lhs.modules # None)) ->
            CR(Err(E("panic")), FALSE, c)
      [] chain_type = "Dot" /\ rhs.k \notin {"Dot", "Index", "Property", "FnCall"} ->
            CR(Err(E("ErrorDotExpr")), FALSE, c)

eval_dot_index_chain_helper(c, target, rhs, idx_values, chain_type, new_val) ==
    chain_step(log(c, Popped(idx_last(idx_values))), target, rhs, idx_values, chain_type,
               new_val)

RECURSIVE eval_indexed_chain(_, _, _, _)

\* the history: a subscript or an argument is about to be evaluated by phase 1,
\* and a value is pushed by phase 1
Indexed(expr) == [ev |-> "index", expr |-> expr]
Pushed(v) == [ev |-> "push", v |-> v]

\* the values of the arguments of a method call, held as one index value
ArgsVal(a) == [t |-> "variant", tag |-> "args", a |-> a]

\* the arguments of a method call, evaluated from the left
RECURSIVE eval_args(_, _, _)
eval_args(c, items, n) ==
    IF n = 0 THEN R(Ok(<<>>), c)
    ELSE IF ~eval_args(c, items, n - 1).res.ok THEN eval_args(c, items, n - 1)
    ELSE IF ~eval_expr(log(eval_args(c, items, n - 1).c, Indexed(items[n])),
                       items[n]).res.ok
    THEN eval_expr(log(eval_args(c, items, n - 1).c, Indexed(items[n])), items[n])
    ELSE R(Ok(Append(eval_args(c, items, n - 1).res.v,
                     eval_expr(log(eval_args(c, items, n - 1).c, Indexed(items[n])),
                               items[n]).res.v)),
           eval_expr(log(eval_args(c, items, n - 1).c, Indexed(items[n])), items[n]).c)

idx_args(args) == IF ~args.res.ok THEN args ELSE R(Ok(ArgsVal(args.res.v)), args.c)

\* a value of phase 1 is pushed
idx_push(val, idx_values) ==
    IF ~val.res.ok THEN val
    ELSE R(Ok(Append(idx_values, val.res.v)), log(val.c, Pushed(val.res.v)))

\* the rest of the chain is evaluated, then the value of lhs is pushed
idx_push_after(rest, lhs_val) ==
    IF ~rest.res.ok THEN rest
    ELSE R(Ok(Append(rest.res.v, lhs_val)), log(rest.c, Pushed(lhs_val)))

\* a phase 1 that pushes the value of lhs before it evaluates the rest
idx_lhs_early(lhs_val, expr, idx_values) ==
    IF ~lhs_val.res.ok THEN lhs_val
    ELSE eval_indexed_chain(log(lhs_val.c, Pushed(lhs_val.res.v)), expr.rhs, expr.k,
                            Append(idx_values, lhs_val.res.v))

\* Expr::Index | Expr::Dot in phase 1, lhs evaluated
idx_lhs(lhs_val, expr, idx_values) ==
    IF ~lhs_val.res.ok THEN lhs_val
    ELSE idx_push_after(eval_indexed_chain(lhs_val.c, expr.rhs, expr.k, idx_values),
                        lhs_val.res.v)

\* the match of phase 1 on the node of the chain, after the governor tick
idx_match(c, expr, chain_type, idx_values) ==
    CASE expr.k = "FnCall" /\ expr.modules = None ->
            idx_push(idx_args(eval_args(c, expr.args, Len(expr.args))), idx_values)
      [] expr.k = "FnCall" /\ expr.modules # None -> R(Err(E("panic")), c)
      [] expr.k = "Property" -> idx_push(R(Ok(UnitVal), c), idx_values)
      [] expr.k \in {"Index", "Dot"} /\ expr.lhs.k = "Property" ->
            idx_lhs(R(Ok(UnitVal), c), expr, idx_values)
      [] expr.k \in {"Index", "Dot"} /\ expr.lhs.k = "FnCall" /\ chain_type = "Dot"
           /\ expr.lhs.modules = None ->
            idx_lhs(idx_args(eval_args(c, expr.lhs.args, Len(expr.lhs.args))), expr,
                    idx_values)
      [] expr.k \in {"Index", "Dot"} /\ expr.lhs.k = "FnCall"
           /\ (chain_type # "Dot" \/ expr.lhs.modules # None) ->
            R(Err(E("panic")), c)
      [] expr.k \in {"Index", "Dot"} /\ expr.lhs.k \notin {"Property", "FnCall"} ->
            idx_lhs(eval_expr(log(c, Indexed(expr.lhs)), expr.lhs), expr, idx_values)
      [] OTHER -> idx_push(eval_expr(log(c, Indexed(expr)), expr), idx_values)

eval_indexed_chain(c, expr, chain_type, idx_values) ==
    IF inc_operations(c.state).err # "none"
    THEN R(Err(E(inc_operations(c.state).err)),
           [c EXCEPT !.state = inc_operations(c.state).state])
    ELSE idx_match([c EXCEPT !.state = inc_operations(c.state).state], expr, chain_type,
                   idx_values)

\* the walk is over: its locals are dropped
chain_result(h, locals) == R(h.res, [h.c EXCEPT !.locals = locals])

\* id.??? or id[???], the variable searched for
chain_found(c, s, expr, idx_values, new_val) ==
    IF ~s.ok THEN R(s, c)
    ELSE IF s.typ = "Constant" /\ new_val # None
    THEN R(Err(E("ErrorAssignmentToConstant")), c)
    ELSE chain_result(eval_dot_index_chain_helper(c, Target_Ref(s.ref, <<>>), expr.rhs,
                                                  idx_values, expr.k, new_val),
                      c.locals)

\* id.??? or id[???]
chain_Variable(c, t, expr, idx_values, new_val) ==
    IF t.err # "none" THEN R(Err(E(t.err)), c)
    ELSE chain_found(c, search_namespace(c, expr.lhs), expr, idx_values, new_val)

\* {expr}.??? or {expr}[???]
chain_Expr(val, locals, expr, idx_values) ==
    IF ~val.res.ok THEN val
    ELSE chain_result(
           eval_dot_index_chain_helper(target_from(val.c, val.res.v).c,
                                       target_from(val.c, val.res.v).target,
                                       expr.rhs, idx_values, expr.k, None),
           locals)

\* a chain that walks from the value of a base that is no variable to write
chain_base_walking(phase1, expr, new_val) ==
    IF ~phase1.res.ok THEN phase1
    ELSE IF expr.lhs.k = "Variable"
    THEN chain_Variable([phase1.c EXCEPT !.state = inc_operations(phase1.c.state).state],
                        inc_operations(phase1.c.state), expr, phase1.res.v, new_val)
    ELSE IF ~eval_expr(phase1.c, expr.lhs).res.ok THEN eval_expr(phase1.c, expr.lhs)
    ELSE chain_result(
           eval_dot_index_chain_helper(
             target_from(eval_expr(phase1.c, expr.lhs).c,
                         eval_expr(phase1.c, expr.lhs).res.v).c,
             target_from(eval_expr(phase1.c, expr.lhs).c,
                         eval_expr(phase1.c, expr.lhs).res.v).target,
             expr.rhs, phase1.res.v, expr.k, new_val),
           phase1.c.locals)

\* eval_dot_index_chain once phase 1 has evaluated the index values
chain_base(phase1, expr, new_val) ==
    IF ~phase1.res.ok THEN phase1
    ELSE IF expr.lhs.k = "Variable"
    THEN chain_Variable([phase1.c EXCEPT !.state = inc_operations(phase1.c.state).state],
                        inc_operations(phase1.c.state), expr, phase1.res.v, new_val)
    ELSE IF new_val # None THEN R(Err(E("ErrorAssignmentToUnknownLHS")), phase1.c)
    ELSE chain_Expr(eval_expr(phase1.c, expr.lhs), phase1.c.locals, expr, phase1.res.v)

eval_dot_index_chain(c, expr, new_val) ==
    chain_base(eval_indexed_chain(c, expr.rhs, expr.k, <<>>), expr, new_val)

\* the chain has written the new value: the assignment yields ()
assign_chain(r) == IF ~r.res.ok THEN r ELSE R(Ok(UnitVal), r.c)

\* lhs op= rhs, the new value computed
assign_lhs(c, expr, new_val) ==
    IF expr.lhs.k \in {"Index", "Dot"}
    THEN assign_chain(eval_dot_index_chain(c, expr.lhs, new_val))
    ELSE IF is_constant(expr.lhs) THEN R(Err(E("ErrorAssignmentToConstant")), c)
    ELSE R(Err(E("ErrorAssignmentToUnknownLHS")), c)

\* lhs op= rhs, the operator called on the value of lhs and rhs
assign_new(c, new_val, expr) ==
    IF ~new_val.ok THEN R(new_val, c) ELSE assign_lhs(c, expr, new_val.v)

\* an op-assignment that applies the operator to (rhs, old value of lhs)
assign_old_swapped(old, expr, rhs_val) ==
    IF ~old.res.ok THEN old
    ELSE assign_new(log(old.c, Called(<<op_without_eq(expr.op)>>, <<rhs_val, old.res.v>>)),
                    exec_fn_call_op(op_without_eq(expr.op), rhs_val, old.res.v), expr)

\* lhs op= rhs with an operator: lhs is read and the operator called on (lhs, rhs)
assign_old(old, expr, rhs_val) ==
    IF ~old.res.ok THEN old
    ELSE assign_new(log(old.c, Called(<<op_without_eq(expr.op)>>, <<old.res.v, rhs_val>>)),
                    exec_fn_call_op(op_without_eq(expr.op), old.res.v, rhs_val), expr)

\* lhs op= rhs, lhs not a variable
expr_AssignmentOther(rhs, expr) ==
    IF ~rhs.res.ok THEN rhs
    ELSE IF expr.op = "" THEN assign_lhs(rhs.c, expr, rhs.res.v)
    ELSE assign_old(eval_expr(rhs.c, expr.lhs), expr, rhs.res.v)

\* the literal's items evaluated, the array is built
expr_Array(items) ==
    IF ~items.res.ok THEN items ELSE R(Ok(ArrayVal(items.res.v)), items.c)

\* the literal's items evaluated, the map is built: a later entry replaces an earlier
expr_Map(items, keys) ==
    IF ~items.res.ok THEN items
    ELSE R(Ok(MapVal([key \in {keys[i] : i \in 1..Len(keys)} |->
                 items.res.v[CHOOSE j \in 1..Len(keys) :
                               /\ keys[j] = key
                               /\ \A h \in 1..Len(keys) : keys[h] = key => h <= j]])),
           items.c)

\* the history: eval has run a script at a scope level
Evaled(level) == [ev |-> "eval", level |-> level]

\* eval(script): the script runs in the scope of the caller, where the variables
\* it declares stay, and from then on variables are searched for by name
fn_eval(c, script) ==
    IF script.t # "str" THEN R(Err(ErrorFunctionNotFound(KEYWORD_EVAL)), c)
    ELSE IF script.s \notin EvalScripts THEN R(Err(E("ErrorParsing")), c)
    ELSE R(Ok(script_value(script.s)),
           [log(c, Evaled(c.state.scope_level))
              EXCEPT !.scope = IF script_declares(script.s) = None THEN @
                               ELSE Append(@, script_declares(script.s)),
                     !.state.always_search = TRUE])

\* the arguments evaluated, the function is called: eval is the one function
\* that the scripts of the model call by name
fn_called(args, name) ==
    IF ~args.res.ok THEN args
    ELSE IF name = KEYWORD_EVAL /\ Len(args.res.v) = 1 THEN fn_eval(args.c, args.res.v[1])
    ELSE R(Err(ErrorFunctionNotFound(name)), log(args.c, Called(<<name>>, args.res.v)))

make_function_call(c, expr) ==
    fn_called(eval_items(c, expr.args, Len(expr.args)), expr.name)

\* the arguments evaluated, the module is searched for among the imports; the
\* modules of the resolver hold variables and no function
qualified_fn_called(args, expr) ==
    IF ~args.res.ok THEN args
    ELSE IF ~search_imports_mut(args.c.mods, args.c.state, expr.modules).ok
    THEN R(search_imports_mut(args.c.mods, args.c.state, expr.modules), args.c)
    ELSE R(Err(ErrorFunctionNotFound(expr.name)),
           log(args.c, Called(<<expr.modules.root, expr.name>>, args.res.v)))

make_qualified_function_call(c, expr) ==
    qualified_fn_called(eval_items(c, expr.args, Len(expr.args)), expr)

\* the right operand of && and of ||
bool_rhs(rhs, op) ==
    IF ~rhs.res.ok THEN rhs
    ELSE IF rhs.res.v.t # "bool" THEN R(Err(ErrorBooleanArgMismatch(op)), rhs.c)
    ELSE rhs

\* an && that evaluates both of its operands
expr_And_eager(lhs, expr) ==
    IF ~lhs.res.ok THEN lhs
    ELSE IF lhs.res.v.t # "bool" THEN R(Err(ErrorBooleanArgMismatch("AND")), lhs.c)
    ELSE IF ~bool_rhs(eval_expr(lhs.c, expr.rhs), "AND").res.ok
    THEN bool_rhs(eval_expr(lhs.c, expr.rhs), "AND")
    ELSE R(Ok(BoolVal(lhs.res.v.b /\ eval_expr(lhs.c, expr.rhs).res.v.b)),
           eval_expr(lhs.c, expr.rhs).c)

\* lhs && rhs, lhs evaluated
expr_And(lhs, expr) ==
    IF ~lhs.res.ok THEN lhs
    ELSE IF lhs.res.v.t # "bool" THEN R(Err(ErrorBooleanArgMismatch("AND")), lhs.c)
    ELSE IF ~lhs.res.v.b THEN R(Ok(BoolVal(FALSE)), lhs.c)
    ELSE bool_rhs(eval_expr(lhs.c, expr.rhs), "AND")

\* lhs || rhs, lhs evaluated
expr_Or(lhs, expr) ==
    IF ~lhs.res.ok THEN lhs
    ELSE IF lhs.res.v.t # "bool" THEN R(Err(ErrorBooleanArgMismatch("OR")), lhs.c)
    ELSE IF lhs.res.v.b THEN R(Ok(BoolVal(TRUE)), lhs.c)
    ELSE bool_rhs(eval_expr(lhs.c, expr.rhs), "OR")

\* Dynamic::as_bool
as_bool(v) == IF v.t = "bool" THEN Ok(v.b) ELSE Err(E("mismatch"))

\* Result::unwrap_or
unwrap_or(res, default) == IF res.ok THEN res.v ELSE default

\* call_fn_raw of `==` with the default value false: the operator is built in for
\* two values of one primitive type; the host may register one for its type, which
\* compares the fields, or yields an integer, or raises an error of its own; where
\* no `==` is found the default value is the answer
call_fn_raw_eq(x, y) ==
    IF x.t = y.t /\ x.t \in {"int", "bool", "char", "str", "unit"} THEN Ok(BoolVal(x = y))
    ELSE IF is_host(x) /\ is_host(y) /\ engine.host_eq = "bool" THEN Ok(BoolVal(x.f = y.f))
    ELSE IF is_host(x) /\ is_host(y) /\ engine.host_eq = "int" THEN Ok(IntVal(1))
    ELSE IF is_host(x) /\ is_host(y) /\ engine.host_eq = "err" THEN Err(E("ErrorRuntime"))
    ELSE Ok(BoolVal(FALSE))

\* a probe that compares every element, whatever the earlier ones answered
RECURSIVE in_probe_all(_, _, _, _)
in_probe_all(c, lhs_value, arr, i) ==
    IF i > Len(arr) THEN R(Ok(BoolVal(FALSE)), c)
    ELSE IF ~call_fn_raw_eq(lhs_value, arr[i]).ok
    THEN R(call_fn_raw_eq(lhs_value, arr[i]), log(c, Called(<<"==">>, <<lhs_value, arr[i]>>)))
    ELSE IF unwrap_or(as_bool(call_fn_raw_eq(lhs_value, arr[i]).v), FALSE)
    THEN R(Ok(BoolVal(TRUE)),
           in_probe_all(log(c, Called(<<"==">>, <<lhs_value, arr[i]>>)), lhs_value, arr,
                        i + 1).c)
    ELSE in_probe_all(log(c, Called(<<"==">>, <<lhs_value, arr[i]>>)), lhs_value, arr, i + 1)

\* lhs in [array]: `==` is called on lhs and the elements from the i-th on, until
\* one call answers true
RECURSIVE in_probe(_, _, _, _)
in_probe(c, lhs_value, arr, i) ==
    IF i > Len(arr) THEN R(Ok(BoolVal(FALSE)), c)
    ELSE IF ~call_fn_raw_eq(lhs_value, arr[i]).ok
    THEN R(call_fn_raw_eq(lhs_value, arr[i]), log(c, Called(<<"==">>, <<lhs_value, arr[i]>>)))
    ELSE IF unwrap_or(as_bool(call_fn_raw_eq(lhs_value, arr[i]).v), FALSE)
    THEN R(Ok(BoolVal(TRUE)), log(c, Called(<<"==">>, <<lhs_value, arr[i]>>)))
    ELSE in_probe(log(c, Called(<<"==">>, <<lhs_value, arr[i]>>)), lhs_value, arr, i + 1)

\* str::contains of a string
contains(s, t) == \E i \in 0..(Len(s) - Len(t)) : SubSeq(s, i + 1, i + Len(t)) = t

\* the match of eval_in_expr on the value of rhs
in_match(c, lhs_value, rhs_value) ==
    CASE rhs_value.t = "array" -> in_probe(c, lhs_value, rhs_value.a, 1)
      [] rhs_value.t = "map" /\ lhs_value.t = "str" ->
            R(Ok(BoolVal(lhs_value.s \in DOMAIN rhs_value.m)), c)
      [] rhs_value.t = "map" /\ lhs_value.t = "char" ->
            R(Ok(BoolVal(<<lhs_value.c>> \in DOMAIN rhs_value.m)), c)
      [] rhs_value.t = "str" /\ lhs_value.t = "str" ->
            R(Ok(BoolVal(contains(rhs_value.s, lhs_value.s))), c)
      [] rhs_value.t = "str" /\ lhs_value.t = "char" ->
            R(Ok(BoolVal(contains(rhs_value.s, <<lhs_value.c>>))), c)
      [] OTHER -> R(Err(E("ErrorInExpr")), c)

\* lhs in rhs, both evaluated
in_rhs(lhs_value, rhs) ==
    IF ~rhs.res.ok THEN rhs ELSE in_match(rhs.c, lhs_value, rhs.res.v)

\* lhs in rhs, lhs evaluated
in_lhs(lhs, expr) ==
    IF ~lhs.res.ok THEN lhs ELSE in_rhs(lhs.res.v, eval_expr(lhs.c, expr.rhs))

eval_in_expr(c, expr) ==
    IF inc_operations(c.state).err # "none"
    THEN R(Err(E(inc_operations(c.state).err)),
           [c EXCEPT !.state = inc_operations(c.state).state])
    ELSE in_lhs(eval_expr([c EXCEPT !.state = inc_operations(c.state).state], expr.lhs),
                expr)

\* eval_stmt as one evaluation, for the statement of Expr::Stmt
RECURSIVE eval_stmt(_, _)

\* the match of eval_expr, after the governor tick
eval_expr_match(c, expr) ==
    CASE expr.k = "Expr" -> eval_expr(c, expr.x)
      [] expr.k = "IntegerConstant" -> R(Ok(IntVal(expr.i)), c)
      [] expr.k = "FloatConstant" -> R(Ok(FloatVal(expr.f)), c)
      [] expr.k = "FnPointer" -> R(Ok(FnPtrVal(expr.name, <<>>)), c)
      [] expr.k = "Property" -> R(Err(E("panic")), c)
      [] expr.k = "Stmt" -> eval_stmt(c, expr.stmt)
      [] expr.k = "StringConstant" -> R(Ok(StrVal(expr.s)), c)
      [] expr.k = "CharConstant" -> R(Ok(CharVal(expr.c)), c)
      [] expr.k = "Variable" -> expr_Variable(c, expr)
      [] expr.k = "Assignment" /\ expr.lhs.k = "Variable" ->
            expr_AssignmentVar(eval_expr(c, expr.rhs), expr)
      [] expr.k = "Assignment" /\ expr.lhs.k # "Variable" ->
            expr_AssignmentOther(eval_expr(c, expr.rhs), expr)
      [] expr.k \in {"Index", "Dot"} -> eval_dot_index_chain(c, expr, None)
      [] expr.k = "Array" -> expr_Array(eval_items(c, expr.items, Len(expr.items)))
      [] expr.k = "Map" -> expr_Map(eval_items(c, expr.items, Len(expr.items)), expr.keys)
      [] expr.k = "FnCall" /\ expr.modules = None -> make_function_call(c, expr)
      [] expr.k = "FnCall" /\ expr.modules # None -> make_qualified_function_call(c, expr)
      [] expr.k = "And" -> expr_And(eval_expr(c, expr.lhs), expr)
      [] expr.k = "Or" -> expr_Or(eval_expr(c, expr.lhs), expr)
      [] expr.k = "In" -> eval_in_expr(c, expr)
      [] expr.k = "True" -> R(Ok(BoolVal(TRUE)), c)
      [] expr.k = "False" -> R(Ok(BoolVal(FALSE)), c)
      [] expr.k = "Unit" -> R(Ok(UnitVal), c)
      [] expr.k = "Custom" -> R(expr.result, c)
      [] OTHER -> R(Err(E("panic")), c)

\* the size check that closes eval_expr
eval_expr_checked(result) == R(check_data_size(result.res), result.c)

eval_expr(c, expr) ==
    IF inc_operations(c.state).err # "none"
    THEN R(Err(E(inc_operations(c.state).err)),
           [c EXCEPT !.state = inc_operations(c.state).state])
    ELSE eval_expr_checked(
           eval_expr_match([c EXCEPT !.state = inc_operations(c.state).state], expr))

(***************************************************************************)
(* Collaborators of eval_stmt: the iterator registry and the resolver.     *)
(***************************************************************************)
\* get_iter of the global module and the packages: the types with an iterator
get_iter(tid) == tid \in engine.iter_types

\* the iterator func(iter_type) makes: an array yields its elements in order,
\* the host type "endless" yields without end
make_iter(v) ==
    IF v.t = "array" THEN [items |-> v.a, endless |-> FALSE]
    ELSE [items |-> <<>>, endless |-> TRUE]
iter_has_next(it) == it.endless \/ it.items # <<>>
iter_item(it) == IF it.endless THEN IntVal(0) ELSE Head(it.items)
iter_rest(it) == IF it.endless THEN it ELSE [it EXCEPT !.items = Tail(it.items)]

\* the modules the resolver of the engine can load
Module(name) == [name |-> name, vars |-> [v \in {"answer"} |-> IntVal(42)]]
ResolverPaths == {<<"m">>}
resolve(path) ==
    IF path \in ResolverPaths THEN Ok(Module(path)) ELSE Err(E("ErrorModuleNotFound"))

(***************************************************************************)
(* eval_stmt, one step at a time.                                          *)
(***************************************************************************)
Ctx ==
    [scope |-> scope, mods |-> mods, state |-> state, this |-> this_ptr, locals |-> <<>>,
     trace |-> trace]
NoLast == [k |-> "none"]

\* the lengths and the level with which the eval_stmt call in ctl is entered
EntryOf(node) ==
    [k |-> node.k, node |-> node, e_scope |-> Len(scope), e_mods |-> Len(mods),
     e_level |-> state.scope_level, e_ctx |-> Ctx]

SetCtx(c) ==
    /\ scope' = c.scope
    /\ mods' = c.mods
    /\ state' = c.state
    /\ this_ptr' = c.this
    /\ trace' = c.trace

\* eval_stmt is called on node
Call(c, node, stack) ==
    /\ SetCtx(c)
    /\ stk' = stack
    /\ ctl' = [mode |-> "stmt", node |-> node]
    /\ last' = NoLast
    /\ UNCHANGED <<prog, engine>>

\* the eval_stmt call entered with g returns res to the frame on top of stack.
\* A panic returns to no frame: it unwinds through every eval_stmt call on the
\* stack, none of which runs what follows its inner call (the rewind, the
\* truncate and the scope_level of a block among them), so the context stays
\* as it is at the panic and no call of eval_stmt has returned
Return(c, res, stack, g) ==
    /\ res # Unfinished
    /\ SetCtx(c)
    /\ stk' = (IF Panicked(res) THEN <<>> ELSE stack)
    /\ ctl' = [mode |-> "ret", res |-> res]
    /\ last' = (IF Panicked(res) THEN NoLast
                ELSE [k |-> g.k, node |-> g.node, e_scope |-> g.e_scope,
                      e_mods |-> g.e_mods, e_level |-> g.e_level, e_ctx |-> g.e_ctx,
                      res |-> res])
    /\ UNCHANGED <<prog, engine>>

\* the model explores state.operations up to MaxOps
WithinBound == state.operations < MaxOps

Calling(kind) == WithinBound /\ ctl.mode = "stmt" /\ ctl.node.k = kind
Returning(kind) == WithinBound /\ ctl.mode = "ret" /\ stk # <<>> /\ Head(stk).k = kind
\* the top-level evaluation has ended: with a result it returns, or by a panic
Done == ctl.mode = "ret" /\ stk = <<>>
\* the top-level call has returned its result to the caller
Returned == Done /\ ~Panicked(ctl.res)

\* the governor tick that opens eval_stmt
Tick == LET t == inc_operations(state) IN
        [err |-> t.err, c |-> [Ctx EXCEPT !.state = t.state]]

is_loop_break(res, brk) == ~res.ok /\ res.e = ErrorLoopBreak(brk)

StmtNoop ==
    /\ Calling("Noop")
    /\ \E g \in {EntryOf(ctl.node)}, t \in {Tick} :
         IF t.err # "none" THEN Return(t.c, Err(E(t.err)), stk, g)
         ELSE Return(t.c, check_data_size(Ok(UnitVal)), stk, g)

StmtExpr ==
    /\ Calling("Expr")
    /\ \E g \in {EntryOf(ctl.node)}, t \in {Tick} :
         IF t.err # "none" THEN Return(t.c, Err(E(t.err)), stk, g)
         ELSE \E r \in {eval_expr(t.c, ctl.node.expr)} :
                Return(r.c, check_data_size(r.res), stk, g)

\* a block exit that truncates nothing
BlockExit_keeps(c, result, f, stack) ==
    Return([c EXCEPT !.state.scope_level = c.state.scope_level - 1,
                     !.state.always_search = FALSE],
           check_data_size(result), stack, f.g)

\* a block exit that truncates the scope and forgets the imports
BlockExit_scope_only(c, result, f, stack) ==
    Return([c EXCEPT !.scope = rewind(c.scope, f.prev_scope_len),
                     !.state.scope_level = c.state.scope_level - 1,
                     !.state.always_search = FALSE],
           check_data_size(result), stack, f.g)

\* a block exit that takes the imports it forgets off the count of modules
BlockExit_uncounting(c, result, f, stack) ==
    Return([c EXCEPT !.scope = rewind(c.scope, f.prev_scope_len),
                     !.mods = rewind(c.mods, f.prev_mods_len),
                     !.state.modules = c.state.modules - (Len(c.mods) - f.prev_mods_len),
                     !.state.scope_level = c.state.scope_level - 1,
                     !.state.always_search = FALSE],
           check_data_size(result), stack, f.g)

\* the end of a block: restore the lengths, the level and always_search
BlockExit(c, result, f, stack) ==
    Return([c EXCEPT !.scope = rewind(c.scope, f.prev_scope_len),
                     !.mods = rewind(c.mods, f.prev_mods_len),
                     !.state.scope_level = c.state.scope_level - 1,
                     !.state.always_search = FALSE],
           check_data_size(result), stack, f.g)

StmtBlock ==
    /\ Calling("Block")
    /\ \E g \in {EntryOf(ctl.node)}, t \in {Tick} :
         IF t.err # "none" THEN Return(t.c, Err(E(t.err)), stk, g)
         ELSE \E c1 \in {[t.c EXCEPT !.state.scope_level = t.c.state.scope_level + 1]},
                 f \in {[k |-> "Block", rest |-> ctl.node.stmts,
                         prev_scope_len |-> Len(scope), prev_mods_len |-> Len(mods),
                         g |-> g]} :
                IF f.rest = <<>> THEN BlockExit(c1, Ok(UnitVal), f, stk)
                ELSE Call(c1, Head(f.rest), <<[f EXCEPT !.rest = Tail(f.rest)]>> \o stk)

\* a block that goes on with its next statement when a statement has thrown
BlockRet_resuming ==
    /\ Returning("Block")
    /\ \E f \in {Head(stk)} :
         IF (~ctl.res.ok /\ ctl.res.e.k # "ErrorRuntime") \/ f.rest = <<>>
         THEN BlockExit(Ctx, ctl.res, f, Tail(stk))
         ELSE Call(Ctx, Head(f.rest), <<[f EXCEPT !.rest = Tail(f.rest)]>> \o Tail(stk))

\* a statement of the block has returned: the try_fold goes on or ends
\* (a statement that panics returns nothing here: see Return)
BlockRet ==
    /\ Returning("Block")
    /\ \E f \in {Head(stk)} :
         IF ~ctl.res.ok \/ f.rest = <<>> THEN BlockExit(Ctx, ctl.res, f, Tail(stk))
         ELSE Call(Ctx, Head(f.rest), <<[f EXCEPT !.rest = Tail(f.rest)]>> \o Tail(stk))

StmtIfThenElse ==
    /\ Calling("IfThenElse")
    /\ \E g \in {EntryOf(ctl.node)}, t \in {Tick} :
         IF t.err # "none" THEN Return(t.c, Err(E(t.err)), stk, g)
         ELSE \E guard \in {eval_expr(t.c, ctl.node.expr)}, f \in {[k |-> "IfThenElse", g |-> g]} :
                IF ~guard.res.ok THEN Return(guard.c, guard.res, stk, g)
                ELSE IF ~as_bool(guard.res.v).ok
                THEN Return(guard.c, check_data_size(Err(E("ErrorLogicGuard"))), stk, g)
                ELSE IF as_bool(guard.res.v).v
                THEN Call(guard.c, ctl.node.if_block, <<f>> \o stk)
                ELSE IF ctl.node.else_block # None
                THEN Call(guard.c, ctl.node.else_block, <<f>> \o stk)
                ELSE Return(guard.c, check_data_size(Ok(UnitVal)), stk, g)

IfRet ==
    /\ Returning("IfThenElse")
    /\ Return(Ctx, check_data_size(ctl.res), Tail(stk), Head(stk).g)

\* a turn that takes a guard that is no boolean for false
WhileTurn_lenient(c, f, stack) ==
    \E guard \in {eval_expr(c, f.expr)} :
      IF ~guard.res.ok THEN Return(guard.c, guard.res, stack, f.g)
      ELSE IF as_bool(guard.res.v).ok /\ as_bool(guard.res.v).v
      THEN Call(guard.c, f.body, <<f>> \o stack)
      ELSE Return(guard.c, Ok(UnitVal), stack, f.g)

\* one turn of the loop of Stmt::While: the guard, then the body
WhileTurn(c, f, stack) ==
    \E guard \in {eval_expr(c, f.expr)} :
      IF ~guard.res.ok THEN Return(guard.c, guard.res, stack, f.g)
      ELSE IF ~as_bool(guard.res.v).ok
      THEN Return(guard.c, Err(E("ErrorLogicGuard")), stack, f.g)
      ELSE IF as_bool(guard.res.v).v THEN Call(guard.c, f.body, <<f>> \o stack)
      ELSE Return(guard.c, Ok(UnitVal), stack, f.g)

StmtWhile ==
    /\ Calling("While")
    /\ \E g \in {EntryOf(ctl.node)}, t \in {Tick} :
         IF t.err # "none" THEN Return(t.c, Err(E(t.err)), stk, g)
         ELSE WhileTurn(t.c, [k |-> "While", expr |-> ctl.node.expr,
                              body |-> ctl.node.body, g |-> g], stk)

\* a while loop that takes any error of its body but `break` for the end of a turn
WhileRet_resilient ==
    /\ Returning("While")
    /\ \E f \in {Head(stk)} :
         IF is_loop_break(ctl.res, TRUE) THEN Return(Ctx, Ok(UnitVal), Tail(stk), f.g)
         ELSE WhileTurn(Ctx, f, Tail(stk))

WhileRet ==
    /\ Returning("While")
    /\ \E f \in {Head(stk)} :
         IF ctl.res.ok \/ is_loop_break(ctl.res, FALSE) THEN WhileTurn(Ctx, f, Tail(stk))
         ELSE IF is_loop_break(ctl.res, TRUE) THEN Return(Ctx, Ok(UnitVal), Tail(stk), f.g)
         ELSE Return(Ctx, ctl.res, Tail(stk), f.g)

StmtLoop ==
    /\ Calling("Loop")
    /\ \E g \in {EntryOf(ctl.node)}, t \in {Tick} :
         IF t.err # "none" THEN Return(t.c, Err(E(t.err)), stk, g)
         ELSE Call(t.c, ctl.node.body,
                   <<[k |-> "Loop", body |-> ctl.node.body, g |-> g]>> \o stk)

\* a loop that lets `break` through to its caller
LoopRet_leaky ==
    /\ Returning("Loop")
    /\ \E f \in {Head(stk)} :
         IF ctl.res.ok \/ is_loop_break(ctl.res, FALSE) THEN Call(Ctx, f.body, stk)
         ELSE Return(Ctx, ctl.res, Tail(stk), f.g)

LoopRet ==
    /\ Returning("Loop")
    /\ \E f \in {Head(stk)} :
         IF ctl.res.ok \/ is_loop_break(ctl.res, FALSE) THEN Call(Ctx, f.body, stk)
         ELSE IF is_loop_break(ctl.res, TRUE) THEN Return(Ctx, Ok(UnitVal), Tail(stk), f.g)
         ELSE Return(Ctx, ctl.res, Tail(stk), f.g)

\* the end of a for statement: remove the loop variable, restore the level
ForExit(c, f, stack) ==
    Return([c EXCEPT !.scope = rewind(c.scope, Len(c.scope) - 1),
                     !.state.scope_level = c.state.scope_level - 1],
           check_data_size(Ok(UnitVal)), stack, f.g)

\* one turn of the for loop: the next element, the tick, then the body
ForTurn(c, f, stack) ==
    IF ~iter_has_next(f.iter) THEN ForExit(c, f, stack)
    ELSE \E t \in {inc_operations(c.state)} :
           \E c1 \in {[c EXCEPT !.scope[f.index].value = iter_item(f.iter),
                               !.state = t.state]} :
             IF t.err # "none" THEN Return(c1, Err(E(t.err)), stack, f.g)
             ELSE Call(c1, f.stmt, <<[f EXCEPT !.iter = iter_rest(f.iter)]>> \o stack)

StmtFor ==
    /\ Calling("For")
    /\ \E g \in {EntryOf(ctl.node)}, t \in {Tick} :
         IF t.err # "none" THEN Return(t.c, Err(E(t.err)), stk, g)
         ELSE \E iter_type \in {eval_expr(t.c, ctl.node.expr)} :
                IF ~iter_type.res.ok THEN Return(iter_type.c, iter_type.res, stk, g)
                ELSE IF ~get_iter(type_id(iter_type.res.v))
                THEN Return(iter_type.c, check_data_size(Err(E("ErrorFor"))), stk, g)
                ELSE ForTurn([iter_type.c EXCEPT
                                !.scope = Append(iter_type.c.scope,
                                                 Entry(ctl.node.name, "Normal", UnitVal)),
                                !.state.scope_level = iter_type.c.state.scope_level + 1],
                             [k |-> "For", stmt |-> ctl.node.stmt,
                              index |-> Len(iter_type.c.scope) + 1,
                              iter |-> make_iter(iter_type.res.v), g |-> g],
                             stk)

ForRet ==
    /\ Returning("For")
    /\ \E f \in {Head(stk)} :
         IF ctl.res.ok \/ is_loop_break(ctl.res, FALSE) THEN ForTurn(Ctx, f, Tail(stk))
         ELSE IF is_loop_break(ctl.res, TRUE) THEN ForExit(Ctx, f, Tail(stk))
         ELSE Return(Ctx, ctl.res, Tail(stk), f.g)

StmtContinue ==
    /\ Calling("Continue")
    /\ \E g \in {EntryOf(ctl.node)}, t \in {Tick} :
         IF t.err # "none" THEN Return(t.c, Err(E(t.err)), stk, g)
         ELSE Return(t.c, check_data_size(Err(ErrorLoopBreak(FALSE))), stk, g)

StmtBreak ==
    /\ Calling("Break")
    /\ \E g \in {EntryOf(ctl.node)}, t \in {Tick} :
         IF t.err # "none" THEN Return(t.c, Err(E(t.err)), stk, g)
         ELSE Return(t.c, check_data_size(Err(ErrorLoopBreak(TRUE))), stk, g)

\* Dynamic::take_string of the thrown value, "" when it is not a string
take_string_or_empty(v) == IF v.t = "str" THEN v.s ELSE <<>>

\* the Return or ErrorRuntime signal of a return or throw statement
signal_of(node, v) ==
    IF node.rt = "Return" THEN [k |-> "Return", v |-> v]
    ELSE [k |-> "ErrorRuntime",
          msg |-> IF node.expr # None THEN take_string_or_empty(v) ELSE <<>>]

StmtReturnWithVal ==
    /\ Calling("ReturnWithVal")
    /\ \E g \in {EntryOf(ctl.node)}, t \in {Tick} :
         IF t.err # "none" THEN Return(t.c, Err(E(t.err)), stk, g)
         ELSE \E val \in {IF ctl.node.expr # None THEN eval_expr(t.c, ctl.node.expr)
                          ELSE R(Ok(UnitVal), t.c)} :
                IF ~val.res.ok THEN Return(val.c, val.res, stk, g)
                ELSE Return(val.c, check_data_size(Err(signal_of(ctl.node, val.res.v))),
                            stk, g)

StmtLet ==
    /\ Calling("Let")
    /\ \E g \in {EntryOf(ctl.node)}, t \in {Tick} :
         IF t.err # "none" THEN Return(t.c, Err(E(t.err)), stk, g)
         ELSE \E val \in {IF ctl.node.expr # None THEN eval_expr(t.c, ctl.node.expr)
                          ELSE R(Ok(UnitVal), t.c)} :
                IF ~val.res.ok THEN Return(val.c, val.res, stk, g)
                ELSE Return([val.c EXCEPT
                               !.scope = Append(val.c.scope,
                                                Entry(ctl.node.name, "Normal", val.res.v))],
                            check_data_size(Ok(UnitVal)), stk, g)

\* a constant whose expression is not constant reaches unreachable!()
StmtConst ==
    /\ Calling("Const")
    /\ \E g \in {EntryOf(ctl.node)}, t \in {Tick} :
         IF t.err # "none" THEN Return(t.c, Err(E(t.err)), stk, g)
         ELSE IF ~is_constant(ctl.node.expr) THEN Return(t.c, Err(E("panic")), stk, g)
         ELSE \E val \in {eval_expr(t.c, ctl.node.expr)} :
                IF ~val.res.ok THEN Return(val.c, val.res, stk, g)
                ELSE Return([val.c EXCEPT
                               !.scope = Append(val.c.scope,
                                                Entry(ctl.node.name, "Constant", val.res.v))],
                            check_data_size(Ok(UnitVal)), stk, g)

\* an import that counts the module before the resolver has answered
ImportPath_counting(path, name, stack, g) ==
    IF ~path.res.ok THEN Return(path.c, path.res, stack, g)
    ELSE IF path.res.v.t # "str"
    THEN Return(path.c, check_data_size(Err(E("ErrorImportExpr"))), stack, g)
    ELSE IF ~engine.module_resolver
    THEN Return(path.c, check_data_size(Err(E("ErrorModuleNotFound"))), stack, g)
    ELSE \E module \in {resolve(path.res.v.s)} :
           IF ~module.ok
           THEN Return([path.c EXCEPT !.state.modules = path.c.state.modules + 1],
                       module, stack, g)
           ELSE Return([path.c EXCEPT
                          !.mods = Append(path.c.mods,
                                          [alias |-> name, module |-> module.v]),
                          !.state.modules = path.c.state.modules + 1],
                       check_data_size(Ok(UnitVal)), stack, g)

\* the import, once the path expression is evaluated
ImportPath(path, name, stack, g) ==
    IF ~path.res.ok THEN Return(path.c, path.res, stack, g)
    ELSE IF path.res.v.t # "str"
    THEN Return(path.c, check_data_size(Err(E("ErrorImportExpr"))), stack, g)
    ELSE IF ~engine.module_resolver
    THEN Return(path.c, check_data_size(Err(E("ErrorModuleNotFound"))), stack, g)
    ELSE \E module \in {resolve(path.res.v.s)} :
           IF ~module.ok THEN Return(path.c, module, stack, g)
           ELSE Return([path.c EXCEPT
                          !.mods = Append(path.c.mods,
                                          [alias |-> name, module |-> module.v]),
                          !.state.modules = path.c.state.modules + 1],
                       check_data_size(Ok(UnitVal)), stack, g)

\* an import that evaluates its path before it looks at the module count
StmtImport_late ==
    /\ Calling("Import")
    /\ \E g \in {EntryOf(ctl.node)}, t \in {Tick} :
         IF t.err # "none" THEN Return(t.c, Err(E(t.err)), stk, g)
         ELSE \E path \in {eval_expr(t.c, ctl.node.expr)} :
                IF ge_usize(path.c.state.modules, engine.max_modules)
                THEN Return(path.c, Err(E("ErrorTooManyModules")), stk, g)
                ELSE ImportPath(path, ctl.node.name, stk, g)

StmtImport ==
    /\ Calling("Import")
    /\ \E g \in {EntryOf(ctl.node)}, t \in {Tick} :
         IF t.err # "none" THEN Return(t.c, Err(E(t.err)), stk, g)
         ELSE IF ge_usize(t.c.state.modules, engine.max_modules)
         THEN Return(t.c, Err(E("ErrorTooManyModules")), stk, g)
         ELSE ImportPath(eval_expr(t.c, ctl.node.expr), ctl.node.name, stk, g)

\* the variables of the list are marked public in order, up to the first that
\* is not in the scope
RECURSIVE export_list(_, _)
export_list(sc, list) ==
    IF list = <<>> THEN [ok |-> TRUE, scope |-> sc]
    ELSE IF get_index(sc, Head(list).id) = 0 THEN [ok |-> FALSE, scope |-> sc]
    ELSE export_list(set_entry_alias(sc, get_index(sc, Head(list).id),
                                     IF Head(list).rename = None THEN Head(list).id
                                     ELSE Head(list).rename.v),
                     Tail(list))

(***************************************************************************)
(* eval_stmt as one evaluation: the statement of an Expr::Stmt is run to   *)
(* its end within the evaluation of the expression.                        *)
(***************************************************************************)
\* the size check that closes eval_stmt
eval_stmt_checked(result) == R(check_data_size(result.res), result.c)

\* the try_fold of a block: the result of the last statement, or the first error
RECURSIVE block_fold(_, _, _)
block_fold(c, stmts, acc) ==
    IF stmts = <<>> THEN R(acc, c)
    ELSE LET r == eval_stmt(c, Head(stmts)) IN
         IF ~r.res.ok THEN r ELSE block_fold(r.c, Tail(stmts), r.res)

\* the end of a block entered in the context c; a panic below the block
\* unwinds past it, and the block restores nothing
block_exit(c, r) ==
    IF Panicked(r.res) THEN r ELSE
    R(r.res, [r.c EXCEPT !.scope = rewind(r.c.scope, Len(c.scope)),
                         !.mods = rewind(r.c.mods, Len(c.mods)),
                         !.state.scope_level = r.c.state.scope_level - 1,
                         !.state.always_search = FALSE])

stmt_Block(c, stmt) ==
    block_exit(c, block_fold([c EXCEPT !.state.scope_level = c.state.scope_level + 1],
                             stmt.stmts, Ok(UnitVal)))

stmt_IfThenElse(guard, stmt) ==
    IF ~guard.res.ok THEN guard
    ELSE IF ~as_bool(guard.res.v).ok
    THEN eval_stmt_checked(R(Err(E("ErrorLogicGuard")), guard.c))
    ELSE IF as_bool(guard.res.v).v THEN eval_stmt_checked(eval_stmt(guard.c, stmt.if_block))
    ELSE IF stmt.else_block # None
    THEN eval_stmt_checked(eval_stmt(guard.c, stmt.else_block))
    ELSE eval_stmt_checked(R(Ok(UnitVal), guard.c))

\* what a loop does with the result of its body: "turn" for another turn
loop_body(body) ==
    IF body.res.ok \/ is_loop_break(body.res, FALSE) THEN "turn"
    ELSE IF is_loop_break(body.res, TRUE) THEN "break"
    ELSE "error"

RECURSIVE stmt_While(_, _)
while_body(body, stmt) ==
    CASE loop_body(body) = "turn" -> stmt_While(body.c, stmt)
      [] loop_body(body) = "break" -> R(Ok(UnitVal), body.c)
      [] OTHER -> body

while_guard(guard, stmt) ==
    IF ~guard.res.ok THEN guard
    ELSE IF ~as_bool(guard.res.v).ok THEN R(Err(E("ErrorLogicGuard")), guard.c)
    ELSE IF as_bool(guard.res.v).v THEN while_body(eval_stmt(guard.c, stmt.body), stmt)
    ELSE R(Ok(UnitVal), guard.c)

stmt_While(c, stmt) == while_guard(eval_expr(c, stmt.expr), stmt)

RECURSIVE stmt_Loop(_, _)
loop_turn(body, stmt) ==
    CASE loop_body(body) = "turn" -> stmt_Loop(body.c, stmt)
      [] loop_body(body) = "break" -> R(Ok(UnitVal), body.c)
      [] OTHER -> body

stmt_Loop(c, stmt) == loop_turn(eval_stmt(c, stmt.body), stmt)

\* the end of a for statement: remove the loop variable, restore the level
for_exit(c) ==
    eval_stmt_checked(R(Ok(UnitVal),
                        [c EXCEPT !.scope = rewind(c.scope, Len(c.scope) - 1),
                                  !.state.scope_level = c.state.scope_level - 1]))

RECURSIVE for_turns(_, _, _, _)
for_body(body, stmt, index, iter) ==
    CASE loop_body(body) = "turn" -> for_turns(body.c, stmt, index, iter)
      [] loop_body(body) = "break" -> for_exit(body.c)
      [] OTHER -> body

\* a turn of the for loop after its governor tick t
for_ticked(c, t, stmt, index, iter) ==
    IF t.err # "none" THEN R(Err(E(t.err)), c)
    ELSE for_body(eval_stmt(c, stmt.stmt), stmt, index, iter_rest(iter))

for_turns(c, stmt, index, iter) ==
    IF ~iter_has_next(iter) THEN for_exit(c)
    ELSE for_ticked([c EXCEPT !.scope[index].value = iter_item(iter),
                              !.state = inc_operations(c.state).state],
                    inc_operations(c.state), stmt, index, iter)

stmt_For(iter_type, stmt) ==
    IF ~iter_type.res.ok THEN iter_type
    ELSE IF ~get_iter(type_id(iter_type.res.v))
    THEN eval_stmt_checked(R(Err(E("ErrorFor")), iter_type.c))
    ELSE for_turns([iter_type.c EXCEPT
                      !.scope = Append(iter_type.c.scope, Entry(stmt.name, "Normal", UnitVal)),
                      !.state.scope_level = iter_type.c.state.scope_level + 1],
                   stmt, Len(iter_type.c.scope) + 1, make_iter(iter_type.res.v))

stmt_ReturnWithVal(val, stmt) ==
    IF ~val.res.ok THEN val
    ELSE eval_stmt_checked(R(Err(signal_of(stmt, val.res.v)), val.c))

\* a variable or a constant is pushed with the value of its expression
stmt_Let(val, stmt, typ) ==
    IF ~val.res.ok THEN val
    ELSE eval_stmt_checked(
           R(Ok(UnitVal),
             [val.c EXCEPT !.scope = Append(val.c.scope, Entry(stmt.name, typ, val.res.v))]))

\* the path evaluated, the module is resolved and pushed
stmt_ImportPath(path, stmt) ==
    IF ~path.res.ok THEN path
    ELSE IF path.res.v.t # "str" THEN eval_stmt_checked(R(Err(E("ErrorImportExpr")), path.c))
    ELSE IF ~engine.module_resolver
    THEN eval_stmt_checked(R(Err(E("ErrorModuleNotFound")), path.c))
    ELSE IF ~resolve(path.res.v.s).ok THEN R(resolve(path.res.v.s), path.c)
    ELSE eval_stmt_checked(
           R(Ok(UnitVal),
             [path.c EXCEPT !.mods = Append(path.c.mods,
                                            [alias |-> stmt.name,
                                             module |-> resolve(path.res.v.s).v]),
                            !.state.modules = path.c.state.modules + 1]))

stmt_Import(c, stmt) ==
    IF ge_usize(c.state.modules, engine.max_modules) THEN R(Err(E("ErrorTooManyModules")), c)
    ELSE stmt_ImportPath(eval_expr(c, stmt.expr), stmt)

stmt_Export(c, marked) ==
    eval_stmt_checked(R(IF marked.ok THEN Ok(UnitVal) ELSE Err(E("ErrorVariableNotFound")),
                        [c EXCEPT !.scope = marked.scope]))

\* the match of eval_stmt, after the governor tick
eval_stmt_match(c, stmt) ==
    CASE stmt.k = "Noop" -> eval_stmt_checked(R(Ok(UnitVal), c))
      [] stmt.k = "Expr" -> eval_stmt_checked(eval_expr(c, stmt.expr))
      [] stmt.k = "Block" -> eval_stmt_checked(stmt_Block(c, stmt))
      [] stmt.k = "IfThenElse" -> stmt_IfThenElse(eval_expr(c, stmt.expr), stmt)
      [] stmt.k = "While" -> stmt_While(c, stmt)
      [] stmt.k = "Loop" -> stmt_Loop(c, stmt)
      [] stmt.k = "For" -> stmt_For(eval_expr(c, stmt.expr), stmt)
      [] stmt.k = "Continue" -> eval_stmt_checked(R(Err(ErrorLoopBreak(FALSE)), c))
      [] stmt.k = "Break" -> eval_stmt_checked(R(Err(ErrorLoopBreak(TRUE)), c))
      [] stmt.k = "ReturnWithVal" ->
            stmt_ReturnWithVal(IF stmt.expr # None THEN eval_expr(c, stmt.expr)
                               ELSE R(Ok(UnitVal), c), stmt)
      [] stmt.k = "Let" ->
            stmt_Let(IF stmt.expr # None THEN eval_expr(c, stmt.expr) ELSE R(Ok(UnitVal), c),
                     stmt, "Normal")
      [] stmt.k = "Const" /\ is_constant(stmt.expr) ->
            stmt_Let(eval_expr(c, stmt.expr), stmt, "Constant")
      [] stmt.k = "Const" /\ ~is_constant(stmt.expr) -> R(Err(E("panic")), c)
      [] stmt.k = "Import" -> stmt_Import(c, stmt)
      [] stmt.k = "Export" -> stmt_Export(c, export_list(c.scope, stmt.list))

eval_stmt(c, stmt) ==
    IF c.state.operations >= MaxOps THEN R(Unfinished, c)
    ELSE IF inc_operations(c.state).err # "none"
    THEN R(Err(E(inc_operations(c.state).err)),
           [c EXCEPT !.state = inc_operations(c.state).state])
    ELSE eval_stmt_match([c EXCEPT !.state = inc_operations(c.state).state], stmt)

StmtExport ==
    /\ Calling("Export")
    /\ \E g \in {EntryOf(ctl.node)}, t \in {Tick} :
         IF t.err # "none" THEN Return(t.c, Err(E(t.err)), stk, g)
         ELSE \E marked \in {export_list(t.c.scope, ctl.node.list)} :
                Return([t.c EXCEPT !.scope = marked.scope],
                       check_data_size(IF marked.ok THEN Ok(UnitVal)
                                       ELSE Err(E("ErrorVariableNotFound"))),
                       stk, g)

Next ==
    \/ StmtNoop
    \/ StmtExpr
    \/ StmtBlock
    \/ BlockRet
    \/ StmtIfThenElse
    \/ IfRet
    \/ StmtWhile
    \/ WhileRet
    \/ StmtLoop
    \/ LoopRet
    \/ StmtFor
    \/ ForRet
    \/ StmtContinue
    \/ StmtBreak
    \/ StmtReturnWithVal
    \/ StmtLet
    \/ StmtConst
    \/ StmtImport
    \/ StmtExport

(***************************************************************************)
(* The programs, the engines and the host's scope the evaluator is run on. *)
(***************************************************************************)
\* the host's scope: constants, variables and a value of an iterable host type
InitScope ==
    << Entry("K", "Constant", IntVal(1)),
       Entry("A", "Constant", ArrayVal(<<IntVal(1), IntVal(2)>>)),
       Entry("CM", "Constant", MapVal([key \in {<<"a">>} |-> IntVal(1)])),
       Entry("x", "Normal", BoolVal(TRUE)),
       Entry("n", "Normal", IntVal(0)),
       Entry("a", "Normal", ArrayVal(<<IntVal(1), IntVal(2)>>)),
       Entry("g", "Normal", Variant("endless")) >>

Var(name) == Expr_Variable(name, 0)
Lit(i) == Expr_IntegerConstant(i)
ArrayOf(n) == Expr_Array([i \in 1..n |-> Lit(i)])

\* statements without sub-statements
Atoms ==
    { Stmt_Noop,
      Stmt_Let("y", Lit(1)),
      Stmt_Let("y", None),
      Stmt_Const("C", Lit(5)),
      Stmt_Import(Expr_StringConstant(<<"m">>), "m"),
      Stmt_Break,
      Stmt_Continue,
      Stmt_ReturnWithVal("Return", None),
      Stmt_ReturnWithVal("Exception", Expr_StringConstant(<<"e">>)),
      Stmt_Expr(Var("u")),
      Stmt_Expr(Expr_Assignment(Var("x"), "", Expr_False)),
      Stmt_Expr(Expr_Assignment(Var("K"), "", Lit(2))),
      Stmt_Expr(ArrayOf(SizeCap + 1)) }

\* the left-hand sides of assignments: variables, chains, other expressions
Targets ==
    { Var("K"), Var("n"), Var("u"),
      Expr_Index(Var("A"), Lit(0)), Expr_Index(Var("A"), Lit(5)),
      Expr_Index(Var("A"), Var("u")), Expr_Index(Var("a"), Lit(1)),
      Expr_Index(Var("a"), Lit(5)),
      Expr_Dot(Var("CM"), Expr_Property(<<"a">>)),
      Expr_Dot(Var("CM"), Expr_Property(<<"b">>)),
      Lit(1), Expr_True, Expr_Expr(Var("K")) }

Assignments ==
    { Stmt_Expr(Expr_Assignment(lhs, op, rhs)) :
        lhs \in Targets, op \in {"", "+="}, rhs \in {Lit(2), Var("u")} }

\* assignments to a variable of an imported module, and reads of it
ModuleAssignments ==
    { Stmt_Block(<<Stmt_Import(Expr_StringConstant(<<"m">>), "m"), Stmt_Expr(e)>>) :
        e \in { Expr_Assignment(Expr_QualifiedVariable("m", 0, "answer"), "", Lit(2)),
                Expr_Assignment(Expr_QualifiedVariable("m", 1, "answer"), "+=", Lit(2)),
                Expr_Assignment(Expr_Index(Expr_QualifiedVariable("m", 0, "answer"),
                                           Lit(0)), "", Lit(2)),
                Expr_Assignment(Expr_QualifiedVariable("q", 0, "answer"), "", Lit(2)),
                Expr_QualifiedVariable("m", 0, "answer"),
                Expr_QualifiedVariable("m", 0, "other") } }

\* reads through chains
ChainReads ==
    { Stmt_Expr(e) :
        e \in { Expr_Index(Var("A"), Lit(1)), Expr_Index(Var("a"), Lit(2)),
                Expr_Index(Var("a"), Expr_True),
                Expr_Index(Expr_StringConstant(<<"h", "i">>), Lit(1)),
                Expr_Index(Var("K"), Lit(0)),
                Expr_Dot(Var("CM"), Expr_Property(<<"a">>)),
                Expr_Dot(Var("CM"), Expr_Property(<<"z">>)),
                Expr_Index(Expr_Array(<<ArrayOf(2)>>), Expr_Index(Lit(0), Lit(1))),
                Expr_Map(<<<<"k">>>>, <<Lit(1)>>),
                Expr_Array(<<Expr_Map(<<<<"k">>>>, <<Lit(1)>>)>>) } }

\* imports whose path expression fails, is no string, or writes a variable
ImportPrograms ==
    { Stmt_Import(e, "m") :
        e \in { Var("u"), Lit(1), Expr_StringConstant(<<"z">>),
                Expr_Assignment(Var("n"), "", Lit(2)) } }

\* exports of variables of the scope, renamed or not, and of a variable unknown
ExportPrograms ==
    { Stmt_Export(<<Exported("x", None)>>),
      Stmt_Export(<<Exported("x", Some("y")), Exported("n", None)>>),
      Stmt_Export(<<Exported("u", None)>>),
      Stmt_Export(<<Exported("x", None), Exported("u", None)>>) }

\* a constant declared with an expression that is not constant, at the top,
\* in a block, below declarations of the blocks around it, and in a loop body
ConstPrograms ==
    { Stmt_Const("C", Var("x")),
      Stmt_Block(<<Stmt_Const("C", Var("x")), Stmt_Expr(Var("C"))>>),
      Stmt_Block(<<Stmt_Let("y", Lit(1)), Stmt_Const("C", Var("x"))>>),
      Stmt_Block(<<Stmt_Let("y", Lit(1)),
                   Stmt_Block(<<Stmt_Let("z", Lit(1)), Stmt_Const("C", Var("x"))>>)>>),
      Stmt_While(Expr_True,
                 Stmt_Block(<<Stmt_Let("y", Lit(1)), Stmt_Const("C", Var("x"))>>)),
      Stmt_For("i", Var("a"),
               Stmt_Block(<<Stmt_Let("y", Lit(1)), Stmt_Const("C", Var("x"))>>)) }

\* the statements a loop body is made of
BodyAtoms ==
    { Stmt_Noop,
      Stmt_Let("y", Lit(1)),
      Stmt_Import(Expr_StringConstant(<<"m">>), "m"),
      Stmt_Break,
      Stmt_Continue,
      Stmt_ReturnWithVal("Exception", None),
      Stmt_Expr(Var("u")),
      Stmt_Expr(Expr_Assignment(Var("x"), "", Expr_False)) }

Blocks(atoms) ==
    {Stmt_Block(<<>>)} \cup {Stmt_Block(<<a>>) : a \in atoms}
        \cup {Stmt_Block(<<a, b>>) : a \in atoms, b \in atoms}

\* every kind of loop around a body
Loops(body) ==
    { Stmt_While(Var("x"), body),
      Stmt_Loop(body),
      Stmt_For("i", ArrayOf(2), body),
      Stmt_For("i", Var("g"), body) }

LoopPrograms == UNION {Loops(b) : b \in Blocks(BodyAtoms)}

\* loops whose guard or iterable fails
BadLoops ==
    { Stmt_While(Lit(1), Stmt_Block(<<>>)),
      Stmt_While(Var("u"), Stmt_Block(<<>>)),
      Stmt_While(Expr_True, Stmt_Block(<<Stmt_Expr(Expr_Assignment(Var("n"), "+=", Lit(1)))>>)),
      Stmt_For("i", Lit(1), Stmt_Block(<<>>)),
      Stmt_For("i", Var("u"), Stmt_Block(<<>>)) }

\* a loop in the body of a loop, followed by one more statement
NestedLoops ==
    UNION { Loops(Stmt_Block(<<inner, b>>)) :
              inner \in UNION {Loops(Stmt_Block(<<a>>)) :
                                 a \in {Stmt_Break, Stmt_Continue, Stmt_Expr(Var("u")),
                                        Stmt_Expr(Expr_Assignment(Var("x"), "", Expr_False))}},
              b \in {Stmt_Noop, Stmt_Break,
                     Stmt_Expr(Expr_Assignment(Var("x"), "", Expr_False))} }

\* if statements, alone and in a loop
IfPrograms ==
    { Stmt_IfThenElse(guard, Stmt_Block(<<a>>), else_block) :
        guard \in {Var("x"), Expr_False, Lit(1), Var("u")},
        a \in {Stmt_Noop, Stmt_Let("y", Lit(1)), Stmt_Break},
        else_block \in {None, Stmt_Block(<<Stmt_ReturnWithVal("Return", Lit(3))>>)} }
    \cup
    UNION { Loops(Stmt_Block(<<Stmt_IfThenElse(Var("x"), Stmt_Block(<<a>>), None), b>>)) :
              a \in {Stmt_Break, Stmt_Continue},
              b \in {Stmt_Noop, Stmt_Expr(Expr_Assignment(Var("x"), "", Expr_False))} }

\* a block around a statement that pushes, a loop or block, and one more statement
NestedBlocks ==
    { Stmt_Block(<<a, inner, b>>) :
        a \in {Stmt_Let("y", Lit(1)), Stmt_Import(Expr_StringConstant(<<"m">>), "m")},
        inner \in {Stmt_Block(<<Stmt_Let("z", Lit(2))>>),
                   Stmt_Block(<<Stmt_Import(Expr_StringConstant(<<"m">>), "n"), Stmt_Break>>),
                   Stmt_For("i", ArrayOf(2), Stmt_Block(<<Stmt_Expr(Var("u"))>>)),
                   Stmt_For("i", ArrayOf(2), Stmt_Block(<<Stmt_Let("z", Lit(2))>>)),
                   Stmt_For("i", ArrayOf(2), Stmt_Block(<<Stmt_Break>>))},
        b \in {Stmt_Noop, Stmt_Import(Expr_StringConstant(<<"m">>), "p")} }

\* x as the parser numbers it in a script that starts with the scope of Init:
\* the fourth slot from the top
CachedX == Expr_Variable("x", 4)

\* blocks that call eval, then go through an inner block or not, then look a
\* variable up; and blocks that look it up after a block that called eval
EvalPrograms ==
    { Stmt_Block(<<Stmt_Expr(Expr_FnCall(KEYWORD_EVAL, <<Expr_StringConstant(script)>>))>>
                 \o inner \o <<Stmt_Expr(probe)>>) :
        script \in EvalScripts,
        inner \in { <<>>, <<Stmt_Block(<<Stmt_Let("y", Lit(1))>>)>>,
                    <<Stmt_IfThenElse(Expr_True, Stmt_Block(<<Stmt_Noop>>), None)>> },
        probe \in {Var("x"), CachedX, Var("z")} }
      \cup
    { Stmt_Block(<<Stmt_Block(<<Stmt_Expr(Expr_FnCall(KEYWORD_EVAL,
                                                     <<Expr_StringConstant(script)>>))>>),
                   Stmt_Expr(probe)>>) :
        script \in EvalScripts, probe \in {CachedX, Var("z")} }
      \cup
    { Stmt_Expr(Expr_FnCall(KEYWORD_EVAL, <<arg>>)) :
        arg \in {Expr_StringConstant(<<"4", "2">>), Expr_StringConstant(<<"l", "e", "t">>),
                 Expr_StringConstant(<<"?">>), Lit(1)} }

Programs ==
    Atoms \cup Blocks(Atoms) \cup LoopPrograms \cup BadLoops \cup NestedLoops
        \cup IfPrograms \cup NestedBlocks
        \cup Assignments \cup ModuleAssignments \cup ChainReads \cup ImportPrograms
        \cup EvalPrograms \cup ExportPrograms \cup ConstPrograms

\* Engine::new_raw() with a resolver and the iterators of the standard package
DefaultEngine ==
    [ max_operations |-> 0, max_modules |-> USIZE_MAX,
      max_string_size |-> 0, max_array_size |-> 0, max_map_size |-> 0,
      module_resolver |-> TRUE, progress |-> 0,
      iter_types |-> {"array", "endless"}, native_ops |-> {},
      getters |-> {}, setters |-> {}, getter_updates |-> FALSE,
      setter_errs |-> {}, idx_get |-> FALSE, idx_set |-> FALSE, idx_set_err |-> None,
      host_eq |-> "none" ]

Engines ==
    { [DefaultEngine EXCEPT !.max_operations = ops, !.max_modules = m,
                            !.max_array_size = a] :
        ops \in {0, OpsLimit}, m \in {usize(0), usize(1), USIZE_MAX}, a \in {0, SizeCap} }

Init ==
    /\ prog \in Programs
    /\ engine \in Engines
    /\ this_ptr = NoThis
    /\ scope = InitScope
    /\ mods = <<>>
    /\ state = [always_search |-> FALSE, scope_level |-> 0, operations |-> 0, modules |-> 0,
                polled |-> <<>>]
    /\ stk = <<>>
    /\ ctl = [mode |-> "stmt", node |-> prog]
    /\ last = NoLast
    /\ trace = <<>>

Spec == Init /\ [][Next]_vars

(***************************************************************************)
(* eval_stmt under engines with a progress callback, which stops the       *)
(* script at its third tick, or later than the operations limit allows.    *)
(***************************************************************************)
ProgressEngines ==
    { [DefaultEngine EXCEPT !.max_operations = lim[1], !.progress = lim[2]] :
        lim \in { <<0, 3>>, <<0, OpsLimit + 2>>, <<OpsLimit, 3>>,
                  <<OpsLimit, OpsLimit + 2>> } }

InitProgress ==
    /\ prog \in Programs
    /\ engine \in ProgressEngines
    /\ this_ptr = NoThis
    /\ scope = InitScope
    /\ mods = <<>>
    /\ state = [always_search |-> FALSE, scope_level |-> 0, operations |-> 0, modules |-> 0,
                polled |-> <<>>]
    /\ stk = <<>>
    /\ ctl = [mode |-> "stmt", node |-> prog]
    /\ last = NoLast
    /\ trace = <<>>

SpecProgress == InitProgress /\ [][Next]_vars

(***************************************************************************)
(* The evaluator under an operations limit, run to its end: a call of      *)
(* eval_stmt is a sequential computation, so a step that can be taken is   *)
(* taken.                                                                  *)
(***************************************************************************)
\* the programs whose steps are statements. FairSpec runs these with the size
\* caps off: TLC evaluates ENABLED Next without sharing the value of an operator
\* argument, and so walks an index or dot chain, and measures a result, once
\* per reference to it
StatementPrograms ==
    (Atoms \ {Stmt_Expr(ArrayOf(SizeCap + 1))})
        \cup LoopPrograms \cup BadLoops \cup NestedLoops
        \cup IfPrograms \cup NestedBlocks \cup ImportPrograms \cup ExportPrograms
        \cup ConstPrograms

InitLimited ==
    /\ Init
    /\ engine.max_operations > 0
    /\ engine.max_array_size = 0
    /\ prog \in StatementPrograms

FairSpec == InitLimited /\ [][Next]_vars /\ WF_vars(Next)

(***************************************************************************)
(* check_data_size applied to results of every shape, under every          *)
(* combination of caps.                                                    *)
(***************************************************************************)
StrOf(n) == StrVal([i \in 1..n |-> "s"])
KeyOf(n) == [i \in 1..n |-> "k"]

\* what the arrays and maps handed to the size check are made of
SizeElems ==
    { IntVal(1), StrOf(SizeCap + 1), ArrayVal(<<>>), ArrayVal(<<IntVal(1), IntVal(1)>>),
      MapVal([key \in {KeyOf(1)} |-> IntVal(1)]),
      MapVal([key \in {KeyOf(1)} |-> ArrayVal(<<IntVal(1)>>)]) }

SizeArrays == UNION {[1..n -> SizeElems] : n \in 0..(SizeCap + 1)}
SizeMaps == UNION {[keys -> SizeElems] : keys \in SUBSET {KeyOf(i) : i \in 1..(SizeCap + 1)}}

SizeResults ==
    {Ok(ArrayVal(a)) : a \in SizeArrays} \cup {Ok(MapVal(m)) : m \in SizeMaps}
        \cup {Ok(StrOf(n)) : n \in 0..(SizeCap + 1)}
        \cup {Ok(StrVal([i \in 1..n |-> ch])) : n \in 1..SizeCap, ch \in {"é", "€"}}
        \cup {Ok(IntVal(1)), Ok(UnitVal), Err(E("ErrorRuntime"))}

SizeEngines ==
    { [DefaultEngine EXCEPT !.max_string_size = s, !.max_array_size = a,
                            !.max_map_size = m] :
        s \in {0, SizeCap}, a \in {0, 1, SizeCap}, m \in {0, 1, SizeCap} }

InitSize ==
    /\ prog = Stmt_Noop
    /\ engine \in SizeEngines
    /\ this_ptr = NoThis
    /\ scope = <<>>
    /\ mods = <<>>
    /\ state = [always_search |-> FALSE, scope_level |-> 0, operations |-> 0, modules |-> 0,
                polled |-> <<>>]
    /\ stk = <<>>
    /\ ctl \in {[mode |-> "result", res |-> r] : r \in SizeResults}
    /\ last = NoLast
    /\ trace = <<>>

\* a result is handed to check_data_size
CheckDataSize ==
    /\ ctl.mode = "result"
    /\ ctl' = [mode |-> "checked", arg |-> ctl.res, res |-> check_data_size(ctl.res)]
    /\ UNCHANGED <<prog, engine, this_ptr, scope, mods, state, stk, last, trace>>

NextSize == CheckDataSize

SpecSize == InitSize /\ [][NextSize]_vars

(***************************************************************************)
(* eval_expr called by a host on expressions over a scope of its own: an   *)
(* array, a map, a string, an object of a host type with properties, a     *)
(* constant and a boolean. The calls share the scope and the state, as the *)
(* expressions of the statements of one script do.                         *)
(***************************************************************************)
ExprScope ==
    << Entry("K", "Constant", ArrayVal(<<IntVal(1)>>)),
       Entry("a", "Normal",
             ArrayVal(<<IntVal(10), IntVal(20), ArrayVal(<<IntVal(30), IntVal(40)>>)>>)),
       Entry("m", "Normal",
             MapVal([key \in {<<"k">>, <<"n">>, <<"l">>} |->
                       CASE key = <<"k">> -> IntVal(1)
                         [] key = <<"n">> ->
                              MapVal([sub \in {<<"k">>, <<"l">>} |->
                                        IF sub = <<"k">> THEN IntVal(2)
                                        ELSE ArrayVal(<<IntVal(7), IntVal(8)>>)])
                         [] key = <<"l">> -> ArrayVal(<<IntVal(5), IntVal(6)>>)])),
       Entry("s", "Normal", StrVal(<<"a", "b", "a">>)),
       Entry("o", "Normal",
             HostVal([prop \in {<<"p">>, <<"q">>} |->
                        IF prop = <<"p">> THEN IntVal(7) ELSE ArrayVal(<<IntVal(1)>>)])),
       Entry("t", "Normal", BoolVal(TRUE)),
       Entry("f", "Normal", BoolVal(FALSE)) >>

\* subscripts, keys and the values written
IdxExprs == {Lit(i) : i \in {-1, 0, 1, 2, 3}} \cup {Expr_StringConstant(<<"k">>), Expr_Unit}
KeyExprs == {Expr_StringConstant(<<"k">>), Expr_StringConstant(<<"z">>), Lit(0)}
ValExprs == {Lit(5), Expr_CharConstant("a"), Expr_CharConstant("z"), Expr_Unit}
Prop(id) == Expr_Property(<<id>>)

\* chains that are read and written
PlaceChains ==
    {Expr_Index(Var(x), i) : x \in {"a", "s", "K"}, i \in IdxExprs}
        \cup {Expr_Index(Var("a"), Expr_Index(Lit(2), i)) : i \in IdxExprs}
        \cup {Expr_Index(Var("m"), k) : k \in KeyExprs}
        \cup {Expr_Index(Var(x), k) : x \in {"o", "t"},
                                      k \in {Expr_StringConstant(<<"p">>), Lit(0)}}
        \cup {Expr_Dot(Var(x), Prop(k)) : x \in {"m", "o", "a"}, k \in {"k", "z", "p"}}
        \cup {Expr_Dot(Var("m"), Expr_Dot(Prop(n), Prop(k))) :
                 n \in {"n", "z"}, k \in {"k", "z"}}
        \cup {Expr_Dot(Var("m"), Expr_Index(Prop("l"), i)) : i \in {Lit(1), Lit(2)}}
        \cup {Expr_Dot(Var("m"), Expr_Dot(Prop("n"), Expr_Index(Prop("l"), Lit(1)))),
              Expr_Dot(Var("o"), Expr_Index(Prop("q"), Lit(0))),
              Expr_Dot(Var("o"), Expr_Dot(Prop("p"), Prop("k"))),
              Expr_Index(Var("a"), Expr_Index(Expr_Dot(Var("m"), Prop("k")),
                                              Expr_Index(Var("t"), Lit(0)))),
              Expr_Index(Var("s"), Expr_Index(Lit(0), Lit(0))) }

\* chains whose base is no variable: a variable in parentheses, an array literal
BaseChains ==
    {Expr_Index(Expr_Expr(Var("a")), i) :
        i \in {Lit(0), Lit(5), Var("u"), Expr_Assignment(Var("t"), "", Expr_False)}}
        \cup { Expr_Index(Expr_Array(<<Lit(1), Lit(2)>>), Lit(0)),
               Expr_Dot(Expr_Expr(Var("m")), Prop("k")),
               Expr_Dot(Expr_Expr(Var("m")), Prop("z")),
               Expr_Dot(Expr_Expr(Var("o")), Prop("p")) }

\* chains with method calls
CallChains ==
    { Expr_Dot(Var("a"), Expr_FnCall("len", <<>>)),
      Expr_Dot(Var("a"), Expr_FnCall("push", <<Lit(1)>>)),
      Expr_Dot(Expr_Expr(Var("a")), Expr_FnCall("push", <<Lit(1)>>)),
      Expr_Dot(Var("K"), Expr_FnCall("push", <<Lit(1)>>)),
      Expr_Index(Var("a"), Expr_Dot(Lit(2), Expr_FnCall("push", <<Var("t")>>))),
      Expr_Dot(Var("m"), Expr_Dot(Prop("l"), Expr_FnCall("put", <<Lit(1), Var("u")>>))),
      Expr_Dot(Var("m"), Expr_Dot(Prop("l"), Expr_FnCall("put", <<Lit(1), Var("t")>>))),
      Expr_Dot(Var("o"), Expr_Dot(Prop("q"), Expr_FnCall("push", <<Lit(2)>>))),
      Expr_Dot(Var("o"), Expr_Dot(Prop("q"), Expr_FnCall("len", <<>>))),
      Expr_Dot(Var("a"), Expr_Index(Expr_FnCall("len", <<>>), Lit(0))),
      Expr_Index(Var("a"), Expr_FnCall("len", <<Lit(1)>>)),
      Expr_Index(Var("a"), Expr_Index(Expr_FnCall("len", <<Lit(1)>>), Lit(0))),
      Expr_Index(Var("a"), Expr_Dot(Expr_FnCall("len", <<>>), Prop("p"))) }

\* the operands of && and ||, and the expressions made of them
Operands ==
    { Expr_True, Expr_False, Var("t"), Var("f"), Var("u"), Lit(1),
      Expr_Assignment(Var("t"), "", Expr_False),
      Expr_Index(Var("a"), Lit(0)), Expr_Index(Var("a"), Lit(9)) }
Logic == UNION {{Expr_And(x, y), Expr_Or(x, y)} : x \in Operands, y \in Operands}

Writes == {Expr_Assignment(lhs, "", v) : lhs \in PlaceChains \cup BaseChains, v \in ValExprs}

\* the operands of `in`: what is looked for, and where
Needles ==
    { Lit(10), Lit(20), Lit(5), Var("o"), Var("t"), Var("u"),
      Expr_StringConstant(<<"k">>), Expr_StringConstant(<<"b", "a">>),
      Expr_CharConstant("a") }
Haystacks ==
    { Var("a"), Var("K"), Var("m"), Var("s"), Var("t"), Var("u"),
      Expr_Array(<<>>),
      Expr_Array(<<Lit(20), Var("t"), Lit(20)>>),
      Expr_Array(<<Lit(1), Var("o"), Expr_CharConstant("a"), Var("o")>>) }
Memberships == {Expr_In(x, y) : x \in Needles, y \in Haystacks}

\* one expression, or a write and then the read of the place written
ExprPrograms ==
    {<<e>> : e \in PlaceChains \cup BaseChains \cup CallChains \cup Logic \cup Memberships}
        \cup {<<w, w.lhs>> : w \in Writes}

\* engines with and without an operations limit, whose packages register
\* getters and setters of the properties of the host type, or an indexer of it
ExprEngines ==
    { [DefaultEngine EXCEPT !.max_operations = ops, !.getters = reg[1],
                            !.setters = reg[2], !.getter_updates = upd] :
        ops \in {0, OpsLimit},
        reg \in { <<{}, {}>>, <<{<<"p">>, <<"q">>}, {}>>,
                  <<{<<"p">>, <<"q">>}, {<<"p">>, <<"q">>}>> },
        upd \in BOOLEAN }
      \cup
    { [DefaultEngine EXCEPT !.getters = {<<"p">>, <<"q">>}, !.setters = {<<"p">>, <<"q">>},
                            !.setter_errs = {<<"q">>}, !.getter_updates = upd] :
        upd \in BOOLEAN }
      \cup
    { [DefaultEngine EXCEPT !.max_operations = ops, !.idx_get = reg[1],
                            !.idx_set = reg[2]] :
        ops \in {0, OpsLimit},
        reg \in { <<TRUE, FALSE>>, <<FALSE, TRUE>>, <<TRUE, TRUE>> } }
      \cup
    { [DefaultEngine EXCEPT !.idx_get = get, !.idx_set = TRUE,
                            !.idx_set_err = Some(ErrorFunctionNotFound("helper"))] :
        get \in BOOLEAN }
      \cup
    { [DefaultEngine EXCEPT !.max_operations = ops, !.host_eq = eq] :
        ops \in {0, OpsLimit}, eq \in {"bool", "int", "err"} }

InitExpr ==
    /\ prog \in ExprPrograms
    /\ engine \in ExprEngines
    /\ this_ptr = NoThis
    /\ scope = ExprScope
    /\ mods = <<>>
    /\ state = [always_search |-> FALSE, scope_level |-> 0, operations |-> 0, modules |-> 0,
                polled |-> <<>>]
    /\ stk = <<>>
    /\ ctl = [mode |-> "host", next |-> 1]
    /\ last = NoLast
    /\ trace = <<>>

\* the call of eval_expr on expr in the context c has returned r
Evaluated(c, expr, r) ==
    [k |-> "Expr", node |-> expr, e_scope |-> Len(c.scope), e_mods |-> Len(c.mods),
     e_level |-> c.state.scope_level, e_ctx |-> c, res |-> r.res]

\* the host calls eval_expr on the next expression; stk keeps the calls made
EvalExpr ==
    /\ ctl.mode = "host"
    /\ ctl.next <= Len(prog)
    /\ \E r \in {eval_expr(Ctx, prog[ctl.next])} :
         /\ r.res # Unfinished
         /\ SetCtx(r.c)
         /\ last' = Evaluated(Ctx, prog[ctl.next], r)
         /\ stk' = Append(stk, Evaluated(Ctx, prog[ctl.next], r))
    /\ ctl' = [mode |-> "host", next |-> ctl.next + 1]
    /\ UNCHANGED <<prog, engine>>

NextExpr == EvalExpr

SpecExpr == InitExpr /\ [][NextExpr]_vars

(***************************************************************************)
(* Imports by engines with and without a module resolver.                  *)
(***************************************************************************)
ImportEngines ==
    { [DefaultEngine EXCEPT !.max_operations = ops, !.module_resolver = r] :
        ops \in {0, OpsLimit}, r \in BOOLEAN }

InitImport ==
    /\ prog \in Programs
    /\ engine \in ImportEngines
    /\ this_ptr = NoThis
    /\ scope = InitScope
    /\ mods = <<>>
    /\ state = [always_search |-> FALSE, scope_level |-> 0, operations |-> 0, modules |-> 0,
                polled |-> <<>>]
    /\ stk = <<>>
    /\ ctl = [mode |-> "stmt", node |-> prog]
    /\ last = NoLast
    /\ trace = <<>>

SpecImport == InitImport /\ [][Next]_vars

(***************************************************************************)
(* Statements and expressions under every operations limit from 1 to       *)
(* OpsLimit, so that the governor trips at every tick of an evaluation:    *)
(* the scripts of Init, and single expressions evaluated by the host with  *)
(* getters, setters and indexers registered.                               *)
(***************************************************************************)
GovernedExprEngines ==
    { [DefaultEngine EXCEPT !.max_operations = n, !.getters = reg, !.setters = reg,
                            !.getter_updates = upd, !.idx_get = idx, !.idx_set = idx] :
        n \in 1..OpsLimit, reg \in {{}, {<<"p">>, <<"q">>}}, upd \in BOOLEAN,
        idx \in BOOLEAN }

\* statements as expressions, and the expressions that are no chain: literals of
\* floats and function pointers, a property outside a chain, a function of a
\* module, custom syntax, and chains with a function of a module as a node
StmtExprs ==
    { Expr_Stmt(stmt) :
        stmt \in { Stmt_Noop, Stmt_Break,
                   Stmt_Let("y", Lit(2)),
                   Stmt_Block(<<Stmt_Expr(Expr_Assignment(Var("t"), "", Expr_False)),
                                Stmt_Expr(Var("t"))>>),
                   Stmt_While(Var("t"), Stmt_Block(<<>>)),
                   Stmt_While(Var("t"), Stmt_Expr(Expr_Assignment(Var("t"), "", Expr_False))),
                   Stmt_Loop(Stmt_Noop),
                   Stmt_Loop(Stmt_Break),
                   Stmt_For("i", Var("a"), Stmt_Expr(Var("i"))),
                   Stmt_For("i", Var("a"), Stmt_Expr(Var("u"))),
                   Stmt_IfThenElse(Var("t"), Stmt_ReturnWithVal("Return", Lit(1)), None),
                   Stmt_Import(Expr_StringConstant(<<"m">>), "m"),
                   Stmt_Export(<<Exported("a", Some("b"))>>) } }

OtherExprs ==
    { Expr_FloatConstant("1.5"), Expr_FnPointer("f"), Expr_Property(<<"p">>),
      Expr_QualifiedFnCall("m", 0, "f", <<Lit(1)>>),
      Expr_Custom(Ok(IntVal(1))), Expr_Custom(Err(E("ErrorRuntime"))),
      Expr_Dot(Var("a"), Expr_QualifiedFnCall("m", 0, "len", <<>>)),
      Expr_Dot(Var("a"), Expr_Dot(Expr_QualifiedFnCall("m", 0, "len", <<>>), Prop("p"))),
      Expr_Index(Var("a"), Expr_QualifiedFnCall("m", 0, "len", <<>>)) }

GovernedExprPrograms ==
    {<<e>> : e \in PlaceChains \cup BaseChains \cup CallChains \cup Writes \cup Memberships
                    \cup StmtExprs \cup OtherExprs}

InitGoverned ==
    /\ this_ptr = NoThis
    /\ mods = <<>>
    /\ state = [always_search |-> FALSE, scope_level |-> 0, operations |-> 0, modules |-> 0,
                polled |-> <<>>]
    /\ stk = <<>>
    /\ last = NoLast
    /\ trace = <<>>
    /\ \/ /\ prog \in Programs
          /\ engine \in {[DefaultEngine EXCEPT !.max_operations = n] : n \in 1..OpsLimit}
          /\ scope = InitScope
          /\ ctl = [mode |-> "stmt", node |-> prog]
       \/ /\ prog \in GovernedExprPrograms
          /\ engine \in GovernedExprEngines
          /\ scope = ExprScope
          /\ ctl = [mode |-> "host", next |-> 1]

NextGoverned == Next \/ EvalExpr

SpecGoverned == InitGoverned /\ [][NextGoverned]_vars

(***************************************************************************)
(* Op-assignments to the places of chains.                                 *)
(***************************************************************************)
\* the places assigned to, the operators and the right-hand sides
OpPlaces ==
    { Expr_Index(Var("a"), Lit(0)), Expr_Index(Var("a"), Lit(5)),
      Expr_Index(Var("a"), Var("u")),
      Expr_Index(Var("a"), Expr_Expr(Expr_Dot(Var("m"), Prop("k")))),
      Expr_Index(Var("a"), Expr_Index(Lit(2), Lit(0))),
      Expr_Index(Var("K"), Lit(0)),
      Expr_Index(Var("s"), Lit(0)),
      Expr_Index(Expr_Expr(Var("a")), Lit(0)),
      Expr_Dot(Var("m"), Prop("k")), Expr_Dot(Var("m"), Prop("z")),
      Expr_Dot(Var("m"), Expr_Index(Prop("l"), Lit(1))),
      Expr_Dot(Var("m"), Expr_Dot(Prop("n"), Expr_Index(Prop("l"), Lit(1)))),
      Expr_Dot(Var("o"), Prop("p")),
      Expr_Dot(Var("o"), Expr_Index(Prop("q"), Lit(0))) }
OpNames == {"", "+=", "-=", "*="}
OpValues ==
    { Lit(5), Expr_Index(Var("a"), Lit(1)), Expr_Index(Var("a"), Lit(9)), Var("u"),
      Expr_CharConstant("z") }

\* the variables assigned to: an integer, a string, a flag, a constant, none
OpVariables == {Var("n"), Var("s"), Var("t"), Var("K"), Var("u")}

\* an assignment to a place, and then the read of the place
OpAssignPrograms ==
    {<<Expr_Assignment(lhs, op, v), lhs>> :
        lhs \in OpPlaces \cup OpVariables, op \in OpNames, v \in OpValues}

\* the scope of the expressions, and an integer
OpScope == Append(ExprScope, Entry("n", "Normal", IntVal(3)))

\* engines whose packages register native methods for op-assignments
OpEngines ==
    ExprEngines \cup
    { [DefaultEngine EXCEPT !.max_operations = ops, !.native_ops = reg] :
        ops \in {0, OpsLimit},
        reg \in { {<<"+=", "int", "int">>},
                  {<<"+=", "str", "char">>, <<"-=", "bool", "int">>} } }

InitOpAssign ==
    /\ prog \in OpAssignPrograms
    /\ engine \in OpEngines
    /\ this_ptr = NoThis
    /\ scope = OpScope
    /\ mods = <<>>
    /\ state = [always_search |-> FALSE, scope_level |-> 0, operations |-> 0, modules |-> 0,
                polled |-> <<>>]
    /\ stk = <<>>
    /\ ctl = [mode |-> "host", next |-> 1]
    /\ last = NoLast
    /\ trace = <<>>

SpecOpAssign == InitOpAssign /\ [][NextExpr]_vars

(***************************************************************************)
(* Properties.                                                             *)
(***************************************************************************)
IsError(res, kind) == ~res.ok /\ res.e.k = kind

\* C1: when eval_stmt returns for a Block, however its statements ended,
\* scope.len() and imports.len() are what they were when the block was entered.
C1_BlockRestoresLengths ==
    last.k = "Block" => Len(scope) = last.e_scope /\ Len(mods) = last.e_mods

\* a block that imported a module and was then left by `break`
C1_Witness ==
    /\ last.k = "Block"
    /\ Len(last.node.stmts) = 2
    /\ last.node.stmts[1].k = "Import"
    /\ last.res = Err(ErrorLoopBreak(TRUE))
    /\ state.modules > last.e_ctx.state.modules

\* an expression statement that is an assignment has returned
AssignReturned == last.k = "Expr" /\ last.node.expr.k = "Assignment"

\* the variable an assignment target starts from, None when there is none
BaseVariable(lhs) ==
    IF lhs.k = "Variable" THEN lhs
    ELSE IF lhs.k \in {"Index", "Dot"} /\ lhs.lhs.k = "Variable" THEN lhs.lhs
    ELSE None

\* the target is a constant expression, or starts from a variable that resolves
\* to a Constant entry (a module-qualified variable always does)
ConstantTarget(c, lhs) ==
    \/ is_constant(lhs)
    \/ /\ BaseVariable(lhs) # None
       /\ search_namespace(c, BaseVariable(lhs)).ok
       /\ search_namespace(c, BaseVariable(lhs)).typ = "Constant"

Ticked(c) == [c EXCEPT !.state = inc_operations(c.state).state]

\* the right-hand side of the assignment statement entered with c
RhsOf(c, expr) == eval_expr(Ticked(Ticked(c)), expr.rhs)

\* the read of the target that an op-assignment to a non-variable makes
OldOf(c, expr) == eval_expr(RhsOf(c, expr).c, expr.lhs)

\* everything evaluated before the target is looked at evaluates: the right-hand
\* side, for an op-assignment to a chain or expression the read of the target and
\* the operator, and the subscripts of a chain
OperandsEvaluate(c, expr) ==
    /\ RhsOf(c, expr).res.ok
    /\ (expr.op # "" /\ expr.lhs.k # "Variable") =>
          /\ OldOf(c, expr).res.ok
          /\ exec_fn_call_op(op_without_eq(expr.op), OldOf(c, expr).res.v,
                             RhsOf(c, expr).res.v).ok
    /\ expr.lhs.k \in {"Index", "Dot"} =>
          eval_indexed_chain(IF expr.op = "" THEN RhsOf(c, expr).c ELSE OldOf(c, expr).c,
                             expr.lhs.rhs, expr.lhs.k, <<>>).res.ok

\* the operations limit has not been passed
NoTrip == engine.max_operations = 0 \/ state.operations <= engine.max_operations

\* the Constant entries of the scope and the modules are as at entry
ConstantsKept ==
    /\ mods = last.e_ctx.mods
    /\ Len(scope) = Len(last.e_ctx.scope)
    /\ \A i \in 1..Len(scope) :
         last.e_ctx.scope[i].typ = "Constant" => scope[i] = last.e_ctx.scope[i]

\* C2 (amended): an assignment, plain or compound, to a constant target never
\* succeeds and leaves every constant as it was; it yields AssignmentToConstant
\* whenever what is evaluated before the target is looked at evaluates and the
\* operations limit is not passed (otherwise the error of that earlier step).
C2_ConstantAssignmentFails ==
    (AssignReturned /\ ConstantTarget(last.e_ctx, last.node.expr.lhs)) =>
        /\ ~last.res.ok
        /\ ConstantsKept
        /\ (OperandsEvaluate(last.e_ctx, last.node.expr) /\ NoTrip) =>
              last.res = Err(E("ErrorAssignmentToConstant"))

\* an op-assignment through an index chain on a constant array was rejected
C2_Witness ==
    /\ AssignReturned
    /\ ConstantTarget(last.e_ctx, last.node.expr.lhs)
    /\ last.node.expr.lhs.k = "Index"
    /\ last.node.expr.op = "+="
    /\ last.res = Err(E("ErrorAssignmentToConstant"))

\* C2 as stated: an assignment to a constant target always yields
\* AssignmentToConstant.
C2_AlwaysAssignmentToConstant ==
    (AssignReturned /\ ConstantTarget(last.e_ctx, last.node.expr.lhs)) =>
        last.res = Err(E("ErrorAssignmentToConstant"))

\* C3: a call of inc_operations adds exactly 1 to state.operations and fails
\* with TooManyOperations iff max_operations > 0 and the new count is greater
\* than max_operations; wherever an evaluation returns TooManyOperations,
\* state.operations > max_operations > 0.
C3_OperationsGovernor ==
    /\ \A n \in 0..MaxOps :
         /\ inc_operations([state EXCEPT !.operations = n]).state
              = [state EXCEPT !.operations = n + 1]
         /\ (inc_operations([state EXCEPT !.operations = n]).err
               = "ErrorTooManyOperations")
              <=> (engine.max_operations > 0 /\ n + 1 > engine.max_operations)
    /\ (ctl.mode = "ret" /\ IsError(ctl.res, "ErrorTooManyOperations")) =>
         (engine.max_operations > 0 /\ state.operations > engine.max_operations)

\* the tick after the last allowed one has failed
C3_Witness ==
    /\ ctl.mode = "ret"
    /\ IsError(ctl.res, "ErrorTooManyOperations")
    /\ state.operations = engine.max_operations + 1

\* programs that never end when there is no operations limit
EndlessPrograms ==
    { Stmt_While(Expr_True,
                 Stmt_Block(<<Stmt_Expr(Expr_Assignment(Var("n"), "+=", Lit(1)))>>)),
      Stmt_While(Var("x"), Stmt_Block(<<Stmt_Continue>>)),
      Stmt_Loop(Stmt_Block(<<>>)),
      Stmt_Loop(Stmt_Block(<<Stmt_Continue, Stmt_Break>>)),
      Stmt_For("i", Var("g"), Stmt_Block(<<Stmt_Noop>>)) }

\* C4: with max_operations > 0 every evaluation comes to its end, and a program
\* that would loop forever ends with TooManyOperations.
C4_Terminates ==
    /\ <>Done
    /\ [](Done /\ prog \in EndlessPrograms =>
            ctl.res = Err(E("ErrorTooManyOperations")))

\* an endless loop has been stopped by the governor
C4_Witness ==
    /\ Done
    /\ prog \in EndlessPrograms
    /\ prog.k = "For"
    /\ ctl.res = Err(E("ErrorTooManyOperations"))

\* C5 as stated: no result fails with DataTooLarge for a category whose cap is 0.
C5_ZeroCapIsOff ==
    (ctl.mode = "ret" /\ IsError(ctl.res, "ErrorDataTooLarge")) => ctl.res.e.limit > 0

RECURSIVE SumOver(_, _)
SumOver(f, S) ==
    IF S = {} THEN 0 ELSE LET x == CHOOSE y \in S : TRUE IN f[x] + SumOver(f, S \ {x})

\* the number of values, neither array nor map, whose immediate container is of
\* the given kind, collected through nested arrays and maps
RECURSIVE Leaves(_, _)
LeavesOf(elem, container, kind) ==
    IF elem.t \in {"array", "map"} THEN Leaves(elem, kind)
    ELSE IF container = kind THEN 1 ELSE 0
Leaves(v, kind) ==
    IF v.t = "array"
    THEN SumOver([i \in 1..Len(v.a) |-> LeavesOf(v.a[i], "array", kind)], 1..Len(v.a))
    ELSE IF v.t = "map"
    THEN SumOver([key \in DOMAIN v.m |-> LeavesOf(v.m[key], "map", kind)], DOMAIN v.m)
    ELSE 0

\* the bytes of the UTF-8 encoding of a string: one for a character of ASCII
Utf8Bytes(s) == SumOver([i \in 1..Len(s) |-> len_utf8(s[i])], 1..Len(s))

\* check_data_size has answered for a successful value of type t
Checked(t) == ctl.mode = "checked" /\ ctl.arg.ok /\ ctl.arg.v.t = t

\* the totals check_data_size compares: the leaves held in arrays and in maps
ArrayCount == Leaves(ctl.arg.v, "array")
MapCount == Leaves(ctl.arg.v, "map")
TooManyInArrays == Err(ErrorDataTooLarge("Size of array", engine.max_array_size, ArrayCount))
TooManyInMaps ==
    Err(ErrorDataTooLarge("Number of properties in object map", engine.max_map_size,
                          MapCount))

\* C6 (amended): with max_array_size = N > 0 an array result fails with
\* DataTooLarge("Size of array", N, count) iff count > N, count being the leaves
\* held in arrays; an array with count <= N is returned as it is when it holds
\* no leaf in a map or, max_map_size being M > 0, at most M of them, and with
\* M > 0 and more than M of them it fails with DataTooLarge("Number of
\* properties in object map", M, leaves in maps).  With max_string_size = S > 0
\* a string result fails with DataTooLarge("Length of string", S, len) iff
\* len > S, len being the bytes of its UTF-8 encoding and not its characters,
\* and is returned as it is otherwise.  With max_map_size = M > 0 a map result
\* that holds no leaf in an array or, max_array_size being N > 0, at most N of
\* them, fails with DataTooLarge("Number of properties in object map", M, count)
\* iff count > M and is returned as it is otherwise; with N > 0 and more than N
\* leaves in arrays it fails with DataTooLarge("Size of array", N, leaves in
\* arrays), the arrays being compared first.  Nothing is said of a result that
\* holds leaves of a kind whose cap is 0.
C6_SizeCounts ==
    /\ (Checked("array") /\ engine.max_array_size > 0) =>
          /\ (ctl.res = TooManyInArrays) <=> (ArrayCount > engine.max_array_size)
          /\ (/\ ArrayCount <= engine.max_array_size
              /\ \/ MapCount = 0
                 \/ engine.max_map_size > 0 /\ MapCount <= engine.max_map_size) =>
                ctl.res = ctl.arg
          /\ (/\ ArrayCount <= engine.max_array_size
              /\ engine.max_map_size > 0
              /\ MapCount > engine.max_map_size) =>
                ctl.res = TooManyInMaps
    /\ (Checked("str") /\ engine.max_string_size > 0) =>
          /\ (ctl.res = Err(ErrorDataTooLarge("Length of string", engine.max_string_size,
                                              Utf8Bytes(ctl.arg.v.s))))
                <=> Utf8Bytes(ctl.arg.v.s) > engine.max_string_size
          /\ Utf8Bytes(ctl.arg.v.s) <= engine.max_string_size => ctl.res = ctl.arg
    /\ (Checked("map") /\ engine.max_map_size > 0) =>
          /\ (\/ ArrayCount = 0
              \/ engine.max_array_size > 0 /\ ArrayCount <= engine.max_array_size) =>
                /\ (ctl.res = TooManyInMaps) <=> (MapCount > engine.max_map_size)
                /\ MapCount <= engine.max_map_size => ctl.res = ctl.arg
          /\ (engine.max_array_size > 0 /\ ArrayCount > engine.max_array_size) =>
                ctl.res = TooManyInArrays

\* an array of nested containers with exactly N leaves in arrays has passed
C6_Witness ==
    /\ Checked("array")
    /\ engine.max_array_size = SizeCap
    /\ Leaves(ctl.arg.v, "array") = SizeCap
    /\ \E i \in 1..Len(ctl.arg.v.a) : ctl.arg.v.a[i].t = "map"
    /\ \E i \in 1..Len(ctl.arg.v.a) : ctl.arg.v.a[i] = ArrayVal(<<>>)
    /\ ctl.res = ctl.arg

\* C6 as stated: an array with no more than N leaves in arrays passes, and a map
\* result fails with the map category iff its count exceeds max_map_size.
C6_Symmetric ==
    /\ (Checked("array") /\ engine.max_array_size > 0
          /\ Leaves(ctl.arg.v, "array") <= engine.max_array_size) => ctl.res = ctl.arg
    /\ (Checked("map") /\ engine.max_map_size > 0) =>
          ((ctl.res = Err(ErrorDataTooLarge("Number of properties in object map",
                                            engine.max_map_size,
                                            Leaves(ctl.arg.v, "map"))))
             <=> Leaves(ctl.arg.v, "map") > engine.max_map_size)

\* C7: an import fails with TooManyModules iff, its governor tick passed,
\* state.modules >= max_modules when it starts; the path expression is then not
\* evaluated (no tick but the statement's own, no variable written) and neither
\* the imports nor state.modules change.
C7_ModuleLimit ==
    last.k = "Import" =>
        /\ (last.res = Err(E("ErrorTooManyModules")))
             <=> (/\ inc_operations(last.e_ctx.state).err = "none"
                  /\ ge_usize(last.e_ctx.state.modules, engine.max_modules))
        /\ (last.res = Err(E("ErrorTooManyModules"))) =>
             /\ scope = last.e_ctx.scope
             /\ mods = last.e_ctx.mods
             /\ state.modules = last.e_ctx.state.modules
             /\ state.operations = last.e_ctx.state.operations + 1

\* a second import was refused under max_modules = 1
C7_Witness ==
    /\ last.k = "Import"
    /\ last.res = Err(E("ErrorTooManyModules"))
    /\ engine.max_modules = usize(1)
    /\ state.modules = 1
    /\ Len(mods) = 1

\* the body of the loop on top of the stack has returned
LoopFrame == ctl.mode = "ret" /\ stk # <<>> /\ Head(stk).k \in {"While", "Loop", "For"}

\* the body of the loop a frame stands for
BodyOf(f) == IF f.k = "For" THEN f.stmt ELSE f.body

\* C8: when the body of a loop returns, `break` ends that loop, which returns
\* Unit to its caller; `continue` makes that loop go on: its body is entered
\* again, or the loop ends by its guard, its iterator or the governor, and a
\* `while` evaluates its guard again; any other error is handed to the caller
\* unchanged; and no loop hands a break or continue signal to its caller, so the
\* frames below the loop's are untouched.
C8_LoopSignals ==
    [][LoopFrame =>
         /\ is_loop_break(ctl.res, TRUE) =>
               (ctl' = [mode |-> "ret", res |-> Ok(UnitVal)] /\ stk' = Tail(stk))
         /\ is_loop_break(ctl.res, FALSE) =>
               /\ \/ /\ ctl' = [mode |-> "stmt", node |-> BodyOf(Head(stk))]
                     /\ Len(stk') = Len(stk)
                     /\ Tail(stk') = Tail(stk)
                     /\ Head(stk').k = Head(stk).k
                  \/ /\ ctl'.mode = "ret"
                     /\ stk' = Tail(stk)
               /\ Head(stk).k = "While" => state'.operations > state.operations
         /\ (~ctl.res.ok /\ ctl.res.e.k # "ErrorLoopBreak") =>
               (ctl' = ctl /\ stk' = Tail(stk))
         /\ ctl'.mode = "ret" => ~IsError(ctl'.res, "ErrorLoopBreak")
      ]_vars

\* `break` has reached the frame of a loop that runs in the body of another loop
C8_Witness ==
    /\ LoopFrame
    /\ is_loop_break(ctl.res, TRUE)
    /\ \E i \in 2..Len(stk) : stk[i].k \in {"While", "Loop", "For"}

\* a script was run by eval outside every block and every for loop
EvalOutsideBlocks == \E h \in 1..Len(trace) : trace[h].ev = "eval" /\ trace[h].level = 0

\* the program is the expression statement `eval(script)`
DirectEval(script) ==
    prog = Stmt_Expr(Expr_FnCall(KEYWORD_EVAL, <<Expr_StringConstant(script)>>))

\* the top-level for has pushed its loop variable: its governor tick passed and
\* its iterable was evaluated to a value whose type has an iterator
ForEntered ==
    /\ prog.k = "For"
    /\ inc_operations(last.e_ctx.state).err = "none"
    /\ eval_expr(Ticked(last.e_ctx), prog.expr).res.ok
    /\ get_iter(type_id(eval_expr(Ticked(last.e_ctx), prog.expr).res.v))

\* imports.len() are what they were at entry.
C9_TopLevelRestores == Returned => Len(scope) = Len(InitScope) /\ Len(mods) = 0

\* C10 as stated: on every exit of a for statement scope.len() is what it was
\* before the statement, and a failure with For leaves the scope unchanged.
C10_ForRestoresScope ==
    last.k = "For" =>
        /\ Len(scope) = last.e_scope
        /\ IsError(last.res, "ErrorFor") => scope = last.e_ctx.scope

(***************************************************************************)
(* search_scope_only applied to a variable expression: scopes of up to     *)
(* MaxScope entries in which names are shadowed and one may be called      *)
(* `this`, each entry holding its position; with and without a this        *)
(* binding; a cached offset within the scope, or none.                     *)
(***************************************************************************)
MaxScope == 3
SearchNames == {"x", "y", KEYWORD_THIS}

SearchScopes ==
    UNION { { [i \in 1..n |-> Entry(names[i], IF i = 1 THEN "Constant" ELSE "Normal",
                                    IntVal(i))] : names \in [1..n -> SearchNames] } :
            n \in 0..MaxScope }

InitSearch ==
    /\ scope \in SearchScopes
    /\ prog \in {Expr_Variable(name, k) : name \in SearchNames \cup {"z"},
                                          k \in 0..Len(scope)}
    /\ engine = DefaultEngine
    /\ this_ptr \in {NoThis, IntVal(9)}
    /\ mods = <<>>
    /\ state \in {[always_search |-> b, scope_level |-> 0, operations |-> 0,
                   modules |-> 0, polled |-> <<>>] : b \in BOOLEAN}
    /\ stk = <<>>
    /\ ctl = [mode |-> "search"]
    /\ last = NoLast
    /\ trace = <<>>

\* the variable is searched for
SearchScope ==
    /\ ctl.mode = "search"
    /\ ctl' = [mode |-> "found", res |-> search_scope_only(Ctx, prog)]
    /\ UNCHANGED <<prog, engine, this_ptr, scope, mods, state, stk, last, trace>>

NextSearch == SearchScope

SpecSearch == InitSearch /\ [][NextSearch]_vars

(***************************************************************************)
(* search_namespace applied to a module-qualified variable: stacks of up   *)
(* to MaxImports imports in which aliases are shadowed, the i-th module    *)
(* holding the variable `answer` with the value i, or a string, or no      *)
(* variable; a cached offset within the stack, or none.                    *)
(***************************************************************************)
MaxImports == 3
ImportAliases == {"m", "q"}

ModuleHolding(i, what) ==
    [name |-> <<"m">>,
     vars |-> CASE what = "int" -> [v \in {"answer"} |-> IntVal(i)]
                [] what = "str" -> [v \in {"answer"} |-> StrVal(<<"s">>)]
                [] OTHER -> [v \in {"other"} |-> IntVal(i)]]

ImportStacks ==
    UNION { { [i \in 1..n |-> [alias |-> aliases[i], module |-> ModuleHolding(i, what[i])]] :
                aliases \in [1..n -> ImportAliases],
                what \in [1..n -> {"int", "str", "none"}] } :
            n \in 0..MaxImports }

InitQualified ==
    /\ mods \in ImportStacks
    /\ prog \in {Expr_QualifiedVariable(root, k, "answer") :
                    root \in ImportAliases \cup {"z"}, k \in 0..Len(mods)}
    /\ engine = DefaultEngine
    /\ this_ptr = NoThis
    /\ scope = <<Entry("answer", "Normal", IntVal(0))>>
    /\ state \in {[always_search |-> b, scope_level |-> 0, operations |-> 0,
                   modules |-> Len(mods), polled |-> <<>>] : b \in BOOLEAN}
    /\ stk = <<>>
    /\ ctl = [mode |-> "search"]
    /\ last = NoLast
    /\ trace = <<>>

\* the qualified variable is searched for
SearchNamespace ==
    /\ ctl.mode = "search"
    /\ ctl' = [mode |-> "found", res |-> search_namespace(Ctx, prog)]
    /\ UNCHANGED <<prog, engine, this_ptr, scope, mods, state, stk, last, trace>>

NextQualified == SearchNamespace

SpecQualified == InitQualified /\ [][NextQualified]_vars

(***************************************************************************)
(* Claims about chains, checked on the calls of the host (SpecExpr).       *)
(***************************************************************************)
\* the context the j-th call of the host left behind
After(j) == IF j < Len(stk) THEN stk[j + 1].e_ctx ELSE Ctx

Tripped(res) == IsError(res, "ErrorTooManyOperations")

\* the value of the variable called name, the most recently pushed one
ValueOf(c, name) == c.scope[get_index(c.scope, name)].value

\* the value of a literal
Literal(e) ==
    CASE e.k = "IntegerConstant" -> IntVal(e.i)
      [] e.k = "CharConstant" -> CharVal(e.c)
      [] e.k = "StringConstant" -> StrVal(e.s)
      [] e.k = "Unit" -> UnitVal

\* the j-th call is the write `x[i] = v` or `x.i = v`, x a variable whose value
\* has type t, the subscript i and v literals
WriteTo(j, t) ==
    /\ stk[j].node.k = "Assignment"
    /\ stk[j].node.lhs.k \in {"Index", "Dot"}
    /\ stk[j].node.lhs.lhs.k = "Variable"
    /\ stk[j].node.lhs.rhs.k \in {"IntegerConstant", "StringConstant", "Unit", "Property"}
    /\ stk[j].e_ctx.scope[get_index(stk[j].e_ctx.scope, stk[j].node.lhs.lhs.name)].typ
         = "Normal"
    /\ ValueOf(stk[j].e_ctx, stk[j].node.lhs.lhs.name).t = t

\* the name of the variable written by the j-th call, its value before and
\* after the call, the subscript and the value written
NameIn(j) == stk[j].node.lhs.lhs.name
Before(j) == ValueOf(stk[j].e_ctx, NameIn(j))
Behind(j) == ValueOf(After(j), NameIn(j))
SubscriptIn(j) ==
    IF stk[j].node.lhs.rhs.k = "Property" THEN StrVal(stk[j].node.lhs.rhs.prop)
    ELSE Literal(stk[j].node.lhs.rhs)
Written(j) == Literal(stk[j].node.rhs)

\* the call after the j-th call reads the place the j-th call wrote
ReadBehind(j) == j < Len(stk) /\ stk[j + 1].node = stk[j].node.lhs

InRange(i, n) == i.t = "int" /\ 0 <= i.i /\ i.i < n

\* C11: for an array variable a and an Int index i with 0 <= i < len(a), the
\* write `a[i] = v` succeeds (unless the operations limit is passed) and leaves
\* a with v at index i, the same length and the same elements elsewhere; the
\* read `a[i]` that follows yields v.
C11_ArrayWriteRead ==
    \A j \in 1..Len(stk) :
        (WriteTo(j, "array") /\ InRange(SubscriptIn(j), Len(Before(j).a))) =>
            /\ stk[j].res = Ok(UnitVal) \/ Tripped(stk[j].res)
            /\ stk[j].res.ok =>
                 /\ Behind(j) = ArrayVal([Before(j).a EXCEPT ![SubscriptIn(j).i + 1] =
                                                               Written(j)])
                 /\ ReadBehind(j) =>
                      stk[j + 1].res = Ok(Written(j)) \/ Tripped(stk[j + 1].res)

\* `a[1] = 5` and then `a[1]`, which yielded 5
C11_Witness ==
    /\ Len(stk) = 2
    /\ WriteTo(1, "array")
    /\ SubscriptIn(1) = IntVal(1)
    /\ stk[1].res = Ok(UnitVal)
    /\ ReadBehind(1)
    /\ stk[2].res = Ok(IntVal(5))
    /\ ValueOf(Ctx, "a") =
         ArrayVal(<<IntVal(10), IntVal(5), ArrayVal(<<IntVal(30), IntVal(40)>>)>>)

\* the chain of the j-th call, which reads it or writes to it
IsWrite(j) == stk[j].node.k = "Assignment"
ChainOf(j) == IF IsWrite(j) THEN stk[j].node.lhs ELSE stk[j].node

IsLiteral(e) == e.k \in {"IntegerConstant", "CharConstant", "StringConstant", "Unit"}

\* the chain of the j-th call starts from a variable of the scope, which is no
\* constant if the call writes
Rooted(j) ==
    /\ ChainOf(j).k \in {"Index", "Dot"}
    /\ ChainOf(j).lhs.k = "Variable"
    /\ get_index(stk[j].e_ctx.scope, ChainOf(j).lhs.name) # 0
    /\ IsWrite(j) =>
         stk[j].e_ctx.scope[get_index(stk[j].e_ctx.scope, ChainOf(j).lhs.name)].typ
           = "Normal"
RootOf(j) == ValueOf(stk[j].e_ctx, ChainOf(j).lhs.name)

\* the chain of the j-th call is x[i], or x[p][i] with p in range, i a literal
OneSubscript(j) == Rooted(j) /\ ChainOf(j).k = "Index" /\ IsLiteral(ChainOf(j).rhs)
TwoSubscripts(j) ==
    /\ Rooted(j)
    /\ ChainOf(j).k = "Index"
    /\ ChainOf(j).rhs.k = "Index"
    /\ ChainOf(j).rhs.lhs.k = "IntegerConstant"
    /\ IsLiteral(ChainOf(j).rhs.rhs)
    /\ RootOf(j).t = "array"
    /\ InRange(Literal(ChainOf(j).rhs.lhs), Len(RootOf(j).a))

\* the value the last subscript of such a chain indexes, and that subscript
Indexee(j) ==
    IF OneSubscript(j) THEN RootOf(j) ELSE RootOf(j).a[ChainOf(j).rhs.lhs.i + 1]
LastSubscript(j) ==
    IF OneSubscript(j) THEN Literal(ChainOf(j).rhs) ELSE Literal(ChainOf(j).rhs.rhs)

\* C12: when a read chain or a write chain indexes an array (of a variable, or
\* an element of an array) with an Int that is negative or >= its length, the
\* result is ArrayBounds with that length and index; with an index that is not
\* an Int, NumericIndexExpr (in both cases unless the operations limit is
\* passed first); the failed access leaves the scope, and so the array and its
\* length, unchanged.
C12_ArrayBounds ==
    \A j \in 1..Len(stk) :
        ((OneSubscript(j) \/ TwoSubscripts(j)) /\ Indexee(j).t = "array"
            /\ ~InRange(LastSubscript(j), Len(Indexee(j).a))) =>
            /\ \/ Tripped(stk[j].res)
               \/ /\ LastSubscript(j).t = "int"
                  /\ stk[j].res = Err(ErrorArrayBounds(Len(Indexee(j).a),
                                                       LastSubscript(j).i))
               \/ /\ LastSubscript(j).t # "int"
                  /\ stk[j].res = Err(E("ErrorNumericIndexExpr"))
            /\ After(j).scope = stk[j].e_ctx.scope

\* `a[3] = 5` on an array of three elements failed with ArrayBounds(3, 3), and
\* the read `a[3]` that followed failed the same way
C12_Witness ==
    /\ Len(stk) = 2
    /\ IsWrite(1)
    /\ OneSubscript(1)
    /\ stk[1].res = Err(ErrorArrayBounds(3, 3))
    /\ stk[2].res = Err(ErrorArrayBounds(3, 3))
    /\ scope = ExprScope

\* the j-th call reads `x.k` or `x[k]`, x a variable and k a literal or a name
ReadOf(j) ==
    /\ ~IsWrite(j)
    /\ Rooted(j)
    /\ \/ ChainOf(j).k = "Index" /\ IsLiteral(ChainOf(j).rhs)
       \/ ChainOf(j).k = "Dot" /\ ChainOf(j).rhs.k = "Property"
KeyRead(j) ==
    IF ChainOf(j).rhs.k = "Property" THEN StrVal(ChainOf(j).rhs.prop)
    ELSE Literal(ChainOf(j).rhs)

\* C13: for a map variable m and a key k, the write `m.k = v` or `m[k] = v`
\* succeeds (unless the operations limit is passed) and leaves m with v under
\* k and its other entries as they were, k being inserted if it was absent;
\* the read of the same place that follows yields v. The read `m.k` or `m[k]`
\* of an absent key yields () and leaves the scope, and so m, unchanged.
C13_MapInsertOrReplace ==
    \A j \in 1..Len(stk) :
        /\ (WriteTo(j, "map") /\ SubscriptIn(j).t = "str") =>
              /\ stk[j].res = Ok(UnitVal) \/ Tripped(stk[j].res)
              /\ stk[j].res.ok =>
                   /\ Behind(j) = MapVal(put(Before(j).m, SubscriptIn(j).s, Written(j)))
                   /\ ReadBehind(j) =>
                        stk[j + 1].res = Ok(Written(j)) \/ Tripped(stk[j + 1].res)
        /\ (ReadOf(j) /\ RootOf(j).t = "map" /\ KeyRead(j).t = "str"
              /\ KeyRead(j).s \notin DOMAIN RootOf(j).m) =>
              /\ stk[j].res = Ok(UnitVal) \/ Tripped(stk[j].res)
              /\ After(j).scope = stk[j].e_ctx.scope

\* `m.z = 5` inserted the key z, the other three entries were kept, and the
\* read `m.z` that followed yielded 5
C13_Witness ==
    /\ Len(stk) = 2
    /\ WriteTo(1, "map")
    /\ stk[1].node.lhs.k = "Dot"
    /\ SubscriptIn(1) = StrVal(<<"z">>)
    /\ <<"z">> \notin DOMAIN Before(1).m
    /\ DOMAIN ValueOf(Ctx, "m").m = DOMAIN Before(1).m \cup {<<"z">>}
    /\ stk[2].res = Ok(IntVal(5))

\* what the j-th call added to the history
TraceOf(j) ==
    SubSeq(After(j).trace, Len(stk[j].e_ctx.trace) + 1, Len(After(j).trace))
Logged(j, ev) == \E h \in 1..Len(TraceOf(j)) : TraceOf(j)[h] = ev

\* C14: for a string variable s and an Int index i within its characters, the
\* write `s[i] = c` of a character c succeeds (unless the operations limit is
\* passed), replaces the i-th character and no other, keeps the character
\* count, and the read `s[i]` that follows yields c; the string is collected
\* anew iff c differs from the character that was there. The write of a value
\* that is no character yields CharMismatch and leaves s as it was. A read or a
\* write with an Int index that is negative or >= the character count yields
\* StringBounds with that count and index and leaves s as it was.
C14_StringCharWrite ==
    \A j \in 1..Len(stk) :
        /\ (WriteTo(j, "str") /\ InRange(SubscriptIn(j), Len(Before(j).s))
              /\ Written(j).t = "char") =>
              /\ stk[j].res = Ok(UnitVal) \/ Tripped(stk[j].res)
              /\ stk[j].res.ok =>
                   /\ Behind(j) = StrVal([Before(j).s EXCEPT ![SubscriptIn(j).i + 1] =
                                                              Written(j).c])
                   /\ Logged(j, Rebuilt) <=>
                        Written(j).c # Before(j).s[SubscriptIn(j).i + 1]
                   /\ ReadBehind(j) =>
                        stk[j + 1].res = Ok(Written(j)) \/ Tripped(stk[j + 1].res)
        /\ (WriteTo(j, "str") /\ InRange(SubscriptIn(j), Len(Before(j).s))
              /\ Written(j).t # "char") =>
              /\ stk[j].res = Err(E("ErrorCharMismatch")) \/ Tripped(stk[j].res)
              /\ Behind(j) = Before(j)
        /\ (OneSubscript(j) /\ RootOf(j).t = "str" /\ LastSubscript(j).t = "int"
              /\ ~InRange(LastSubscript(j), Len(RootOf(j).s))) =>
              /\ \/ Tripped(stk[j].res)
                 \/ stk[j].res = Err(ErrorStringBounds(Len(RootOf(j).s),
                                                       LastSubscript(j).i))
              /\ After(j).scope = stk[j].e_ctx.scope

\* `s[1] = 'z'` on "aba" collected the string "aza", and `s[1]` then yielded 'z'
C14_Witness ==
    /\ Len(stk) = 2
    /\ WriteTo(1, "str")
    /\ SubscriptIn(1) = IntVal(1)
    /\ Written(1) = CharVal("z")
    /\ Logged(1, Rebuilt)
    /\ ValueOf(Ctx, "s") = StrVal(<<"a", "z", "a">>)
    /\ stk[2].res = Ok(CharVal("z"))

\* the links of a chain after its root are subscripts that are literals and
\* names of properties
RECURSIVE PlainLinks(_)
PlainLinks(e) ==
    IF e.k \in {"Index", "Dot"}
    THEN (IsLiteral(e.lhs) \/ e.lhs.k = "Property") /\ PlainLinks(e.rhs)
    ELSE IsLiteral(e) \/ e.k = "Property"

\* the key a link stands for, the element of v under a key, and v with y there
KeyOfLink(n) == IF n.k = "Property" THEN StrVal(n.prop) ELSE Literal(n)
Child(v, key) == IF v.t = "array" THEN v.a[key.i + 1] ELSE v.m[key.s]
Replaced(v, key, y) ==
    CASE v.t = "array" -> ArrayVal([v.a EXCEPT ![key.i + 1] = y])
      [] v.t = "map" -> MapVal(put(v.m, key.s, y))
      [] v.t = "str" -> StrVal([v.s EXCEPT ![key.i + 1] = y.c])

\* v with x at the place the links e lead to
RECURSIVE PutAt(_, _, _)
PutAt(v, e, x) ==
    IF e.k \in {"Index", "Dot"}
    THEN Replaced(v, KeyOfLink(e.lhs), PutAt(Child(v, KeyOfLink(e.lhs)), e.rhs, x))
    ELSE Replaced(v, KeyOfLink(e), x)

\* a call of a property setter
IsSetterCall(ev) == ev.ev = "call" /\ ev.name[1] = FN_SET

\* C15: when a write through a chain of array and map accesses rooted at a
\* variable x succeeds, the value in the scope slot of x is the old one with v
\* at the place of the chain and nothing else changed, no other slot changes,
\* the read of the same chain that follows yields v (unless the operations
\* limit is passed), and no property setter is called.
C15_WritesInPlace ==
    \A j \in 1..Len(stk) :
        (IsWrite(j) /\ Rooted(j) /\ RootOf(j).t \in {"array", "map"}
            /\ PlainLinks(ChainOf(j).rhs) /\ stk[j].res.ok) =>
            /\ Behind(j) = PutAt(Before(j), ChainOf(j).rhs, Written(j))
            /\ \A i \in 1..Len(stk[j].e_ctx.scope) :
                 i # get_index(stk[j].e_ctx.scope, NameIn(j)) =>
                    After(j).scope[i] = stk[j].e_ctx.scope[i]
            /\ ReadBehind(j) =>
                 stk[j + 1].res = Ok(Written(j)) \/ Tripped(stk[j + 1].res)
            /\ \A h \in 1..Len(TraceOf(j)) : ~IsSetterCall(TraceOf(j)[h])

\* `m.n.l[1] = 5` went through two maps and an array, and `m.n.l[1]` then
\* yielded 5
C15_Witness ==
    /\ Len(stk) = 2
    /\ IsWrite(1)
    /\ ChainOf(1) = Expr_Dot(Var("m"), Expr_Dot(Prop("n"), Expr_Index(Prop("l"), Lit(1))))
    /\ stk[1].res = Ok(UnitVal)
    /\ ValueOf(Ctx, "m").m[<<"n">>].m[<<"l">>] = ArrayVal(<<IntVal(7), IntVal(5)>>)
    /\ stk[2].res = Ok(IntVal(5))

\* the j-th call evaluates `lhs && rhs` or `lhs || rhs` and its own governor
\* tick passes
IsLogic(j) ==
    /\ stk[j].node.k \in {"And", "Or"}
    /\ inc_operations(stk[j].e_ctx.state).err = "none"
OpName(j) == IF stk[j].node.k = "And" THEN "AND" ELSE "OR"

\* the left operand evaluated, and the right operand evaluated after it
LhsOf(j) == eval_expr(Ticked(stk[j].e_ctx), stk[j].node.lhs)
RhsAfter(j) == eval_expr(LhsOf(j).c, stk[j].node.rhs)

\* the left operand is the boolean that decides the result by itself
Decides(j) ==
    /\ LhsOf(j).res.ok
    /\ LhsOf(j).res.v = BoolVal(stk[j].node.k = "Or")

\* the j-th call left the scope, the state and the history as c has them
LeftAs(j, c) ==
    /\ After(j).scope = c.scope
    /\ After(j).mods = c.mods
    /\ After(j).state = c.state
    /\ After(j).trace = c.trace

\* C16: when the left operand of && is false, or that of || is true, the
\* result is that boolean, and the scope, the operations count and the history
\* are as the left operand left them: the right operand is not evaluated,
\* whatever it is. A left operand that evaluates to no boolean yields
\* BooleanArgMismatch; so does a right operand that is evaluated (the left one
\* not deciding) and evaluates to no boolean.
C16_ShortCircuit ==
    \A j \in 1..Len(stk) :
        IsLogic(j) =>
            /\ Decides(j) =>
                 /\ stk[j].res = Ok(LhsOf(j).res.v)
                 /\ LeftAs(j, LhsOf(j).c)
            /\ (LhsOf(j).res.ok /\ LhsOf(j).res.v.t # "bool") =>
                 /\ stk[j].res = Err(ErrorBooleanArgMismatch(OpName(j)))
                 /\ LeftAs(j, LhsOf(j).c)
            /\ (LhsOf(j).res.ok /\ LhsOf(j).res.v.t = "bool" /\ ~Decides(j)) =>
                 /\ LeftAs(j, RhsAfter(j).c)
                 /\ IF ~RhsAfter(j).res.ok THEN stk[j].res = RhsAfter(j).res
                    ELSE IF RhsAfter(j).res.v.t # "bool"
                    THEN stk[j].res = Err(ErrorBooleanArgMismatch(OpName(j)))
                    ELSE stk[j].res = RhsAfter(j).res

\* `f && (t = false)` with f false yielded false after two governor ticks, and
\* t is still true
C16_Witness ==
    /\ Len(stk) = 1
    /\ stk[1].node = Expr_And(Var("f"), Expr_Assignment(Var("t"), "", Expr_False))
    /\ stk[1].res = Ok(BoolVal(FALSE))
    /\ state.operations = 2
    /\ ValueOf(Ctx, "t") = BoolVal(TRUE)

\* the nodes of the levels of a chain after its root, in source order
RECURSIVE LevelsOf(_)
LevelsOf(e) == IF e.k \in {"Index", "Dot"} THEN <<e.lhs>> \o LevelsOf(e.rhs) ELSE <<e>>

\* a subscript or an argument that is a literal or a variable
IsSimple(e) == IsLiteral(e) \/ e.k \in {"Variable", "True", "False"}

\* every level is a simple subscript, the name of a property, or a method call
\* with simple arguments
SimpleLevel(n) ==
    \/ IsSimple(n)
    \/ n.k = "Property"
    \/ n.k = "FnCall" /\ \A h \in 1..Len(n.args) : IsSimple(n.args[h])

\* the subscripts and arguments of a sequence of levels, in source order
RECURSIVE SubscriptsOf(_)
SubscriptsOf(levels) ==
    IF levels = <<>> THEN <<>>
    ELSE (CASE Head(levels).k = "Property" -> <<>>
            [] Head(levels).k = "FnCall" -> Head(levels).args
            [] OTHER -> <<Head(levels)>>) \o SubscriptsOf(Tail(levels))

\* the value of a simple expression in the context c
SimpleValue(c, e) ==
    CASE e.k = "Variable" -> ValueOf(c, e.name)
      [] e.k = "True" -> BoolVal(TRUE)
      [] e.k = "False" -> BoolVal(FALSE)
      [] OTHER -> Literal(e)

\* the index value of a level: the value of the subscript, the values of the
\* arguments of a method call, () for the name of a property
LevelValue(c, n) ==
    CASE n.k = "Property" -> UnitVal
      [] n.k = "FnCall" -> ArgsVal([h \in 1..Len(n.args) |-> SimpleValue(c, n.args[h])])
      [] OTHER -> SimpleValue(c, n)

\* the j-th call evaluates or writes a chain with simple levels
SimpleChain(j) ==
    /\ ChainOf(j).k \in {"Index", "Dot"}
    /\ IsWrite(j) => IsLiteral(stk[j].node.rhs)
    /\ \A h \in 1..Len(LevelsOf(ChainOf(j).rhs)) : SimpleLevel(LevelsOf(ChainOf(j).rhs)[h])

\* the events of one kind in a history, and in what the j-th call added to it
EventsIn(t, kind) == SelectSeq(t, LAMBDA ev : ev.ev = kind)
EventsOf(j, kind) == EventsIn(TraceOf(j), kind)
IsPrefix(s, t) == Len(s) <= Len(t) /\ s = SubSeq(t, 1, Len(s))

\* C17: in the evaluation of a chain of n levels whose subscripts and arguments
\* are simple, the subscripts and arguments are evaluated in source order, and
\* every evaluation and every push comes before every pop and every call of a
\* getter, setter or method; n values are pushed (none if a subscript fails);
\* the k-th pop takes the index value of level k; a walk that succeeds pops n
\* values.
C17_PhaseOrder ==
    \A j \in 1..Len(stk) :
        SimpleChain(j) =>
            LET levels == LevelsOf(ChainOf(j).rhs)
                n == Len(levels)
                T == TraceOf(j)
                pushes == EventsOf(j, "push")
                pops == EventsOf(j, "pop")
            IN  /\ IsPrefix([h \in 1..Len(EventsOf(j, "index")) |->
                               EventsOf(j, "index")[h].expr], SubscriptsOf(levels))
                /\ \A g, h \in 1..Len(T) :
                     (T[g].ev \in {"index", "push"} /\ T[h].ev \in {"pop", "call"}) =>
                        g < h
                /\ Len(pushes) \in {0, n}
                /\ Len(pushes) = n =>
                     Len(EventsOf(j, "index")) = Len(SubscriptsOf(levels))
                /\ Len(pops) <= Len(pushes)
                /\ stk[j].res.ok => Len(pops) = n
                /\ \A k \in 1..Len(pops) :
                     /\ pops[k].v = pushes[n - k + 1].v
                     /\ pops[k].v = LevelValue(stk[j].e_ctx, levels[k])

\* `a[2].push(t)`: 2 and t are evaluated, the arguments and then 2 are pushed,
\* 2 and then the arguments are popped, and push is called on a[2]
C17_Witness ==
    /\ Len(stk) = 1
    /\ stk[1].node = Expr_Index(Var("a"),
                                Expr_Dot(Lit(2), Expr_FnCall("push", <<Var("t")>>)))
    /\ stk[1].res = Ok(UnitVal)
    /\ trace = << Indexed(Lit(2)), Indexed(Var("t")),
                  Pushed(ArgsVal(<<BoolVal(TRUE)>>)), Pushed(IntVal(2)),
                  Popped(IntVal(2)), Popped(ArgsVal(<<BoolVal(TRUE)>>)),
                  Called(<<"push">>, <<ArrayVal(<<IntVal(30), IntVal(40)>>),
                                       BoolVal(TRUE)>>) >>
    /\ ValueOf(Ctx, "a").a[3] = ArrayVal(<<IntVal(30), IntVal(40), BoolVal(TRUE)>>)

(***************************************************************************)
(* Claims about the search for variables.                                  *)
(***************************************************************************)
\* the positions of the scope that hold the name
SlotsNamed(name) == {i \in 1..Len(scope) : scope[i].name = name}

\* C18: the search for `this` yields the this binding, or UnboundedThis when
\* there is none, whatever the scope holds. For another name, if always_search
\* is false and the expression carries a cached offset k, it yields the slot k
\* below the top of the scope, whatever its name; otherwise the last slot that
\* has the name, or VariableNotFound when none has it. The slot comes with its
\* entry type.
C18_ScopeSearch ==
    ctl.mode = "found" =>
        IF prog.name = KEYWORD_THIS
        THEN IF this_ptr = NoThis THEN ctl.res = Err(E("ErrorUnboundedThis"))
             ELSE ctl.res.ok /\ ctl.res.ref = ThisRef /\ deref(Ctx, ctl.res.ref) = this_ptr
        ELSE IF ~state.always_search /\ prog.index # 0
        THEN /\ ctl.res.ok
             /\ ctl.res.ref = ScopeRef(Len(scope) - prog.index + 1)
             /\ ctl.res.typ = scope[Len(scope) - prog.index + 1].typ
        ELSE IF SlotsNamed(prog.name) = {} THEN ctl.res = Err(E("ErrorVariableNotFound"))
        ELSE /\ ctl.res.ok
             /\ ctl.res.ref.root = "scope"
             /\ ctl.res.ref.i \in SlotsNamed(prog.name)
             /\ \A i \in SlotsNamed(prog.name) : i <= ctl.res.ref.i
             /\ ctl.res.typ = scope[ctl.res.ref.i].typ

\* x with the cached offset 2 in the scope <<x, y, x>>: the slot found is the
\* one of y, though two slots are called x
C18_Witness ==
    /\ ctl.mode = "found"
    /\ prog = Expr_Variable("x", 2)
    /\ ~state.always_search
    /\ Len(scope) = 3
    /\ scope[1].name = "x" /\ scope[2].name = "y" /\ scope[3].name = "x"
    /\ ctl.res.ok
    /\ deref(Ctx, ctl.res.ref) = IntVal(2)

(***************************************************************************)
(* Claims about eval and the cached offsets.                               *)
(***************************************************************************)
\* the scope level at which eval was last called, -1 when it never was
EvalLevel ==
    IF EventsIn(trace, "eval") = <<>> THEN -1
    ELSE EventsIn(trace, "eval")[Len(EventsIn(trace, "eval"))].level

\* C19: always_search, once true, becomes false only in a step that leaves the
\* block in which eval was called, that is a step taken at the scope level at
\* which eval ran; so the lookups made later in that block search by name.
C19_ResetByOwnBlockOnly ==
    [][(state.always_search /\ ~state'.always_search) =>
          state.scope_level = EvalLevel]_vars

(***************************************************************************)
(* Claims about properties of values that are no maps.                     *)
(***************************************************************************)
\* the j-th call is the write `x.prop = v`, x a variable that holds no map
PropertyWrite(j) ==
    /\ IsWrite(j)
    /\ Rooted(j)
    /\ ChainOf(j).k = "Dot"
    /\ ChainOf(j).rhs.k = "Property"
    /\ RootOf(j).t # "map"

\* the j-th call is the write `x.prop[i] = v`, x a variable that holds a value of
\* the host type, for which the getter of prop is registered
WriteBelowProperty(j) ==
    /\ IsWrite(j)
    /\ Rooted(j)
    /\ ChainOf(j).k = "Dot"
    /\ ChainOf(j).rhs.k = "Index"
    /\ ChainOf(j).rhs.lhs.k = "Property"
    /\ is_host(RootOf(j))
    /\ ChainOf(j).rhs.lhs.prop \in engine.getters

\* C20 (amended): the write `base.prop = v` to a base that is no map, with no
\* setter of prop registered, fails with DotExpr (unless the operations limit
\* is passed first) and leaves the scope, and so base, unchanged. The absence
\* of the setter is passed over in silence only when the setter is called to
\* feed back the value of the getter after `base.prop[i] = v`: that write
\* succeeds and leaves base unchanged.
C20_MissingSetterFails ==
    \A j \in 1..Len(stk) :
        /\ (PropertyWrite(j) /\ ChainOf(j).rhs.prop \notin engine.setters) =>
              /\ stk[j].res = Err(E("ErrorDotExpr")) \/ Tripped(stk[j].res)
              /\ After(j).scope = stk[j].e_ctx.scope
        /\ (WriteBelowProperty(j) /\ ChainOf(j).rhs.lhs.prop \notin engine.setters) =>
              /\ stk[j].res = Ok(UnitVal) \/ Tripped(stk[j].res)
              /\ After(j).scope = stk[j].e_ctx.scope

\* `o.p = 5` on an object whose type has the getter of p and no setter failed
\* with DotExpr after the setter was called, and o is as it was
C20_Witness ==
    /\ Len(stk) >= 1
    /\ PropertyWrite(1)
    /\ ChainOf(1) = Expr_Dot(Var("o"), Prop("p"))
    /\ <<"p">> \in engine.getters
    /\ <<"p">> \notin engine.setters
    /\ stk[1].res = Err(E("ErrorDotExpr"))
    /\ Logged(1, Called(make_setter(<<"p">>), <<ValueOf(stk[1].e_ctx, "o"), IntVal(5)>>))
    /\ ValueOf(After(1), "o") = ValueOf(stk[1].e_ctx, "o")

\* C20 as stated: the write `base.prop = v` to a base that is no map, with no
\* setter of prop registered, returns success and leaves base unchanged.
C20_SilentNoOp ==
    \A j \in 1..Len(stk) :
        (PropertyWrite(j) /\ ChainOf(j).rhs.prop \notin engine.setters) =>
            /\ stk[j].res.ok \/ Tripped(stk[j].res)
            /\ After(j).scope = stk[j].e_ctx.scope

(***************************************************************************)
(* Claims about the indexers of values that are no arrays, maps or strings.*)
(***************************************************************************)
\* the j-th call is the write `x[i] = v`, x a variable that holds no array, map
\* or string, i and v literals
IndexerWrite(j) ==
    /\ IsWrite(j)
    /\ OneSubscript(j)
    /\ IsLiteral(stk[j].node.rhs)
    /\ RootOf(j).t \notin {"array", "map", "str"}

\* what the index getter and the index setter answer when called for that write
GetterOf(j) == exec_fn_call_idx_get(RootOf(j), LastSubscript(j))
SetterOf(j) == exec_fn_call_idx_set(RootOf(j), LastSubscript(j), Written(j))
Absent(call) == ~call.ok /\ call.e.k = "ErrorFunctionNotFound"
AbsentSetter(call) == ~call.ok /\ call.e = ErrorFunctionNotFound(FN_IDX_SET)

\* the j-th call called the index setter with (base, i, v)
SetterCalled(j) ==
    Logged(j, Called(<<FN_IDX_SET>>, <<RootOf(j), LastSubscript(j), Written(j)>>))

\* the j-th call made no call of the index setter
NoSetterCall(j) ==
    \A h \in 1..Len(TraceOf(j)) :
        ~(TraceOf(j)[h].ev = "call" /\ TraceOf(j)[h].name = <<FN_IDX_SET>>)

\* C21: in the write `base[i] = v` to a base that is no array, map or string
\* (the operations limit not passed): when the index getter succeeds, the index
\* setter is called with (base, i, v), and its absence (FunctionNotFound of
\* index$set$ itself) is swallowed, the write returning () and leaving the scope
\* as it was; when there is no index getter,
\* the index setter is called as well and its absence is the error of the
\* write; an error of the getter other than its absence is the error of the
\* write, which calls no setter; any other error of the setter is the error
\* of the write; a setter that succeeds leaves base as it made it.
C21_IndexSetter ==
    \A j \in 1..Len(stk) :
        (IndexerWrite(j) /\ ~Tripped(stk[j].res)) =>
            /\ (GetterOf(j).ok /\ AbsentSetter(SetterOf(j))) =>
                  /\ SetterCalled(j)
                  /\ stk[j].res = Ok(UnitVal)
                  /\ After(j).scope = stk[j].e_ctx.scope
            /\ (Absent(GetterOf(j)) /\ AbsentSetter(SetterOf(j))) =>
                  /\ SetterCalled(j)
                  /\ stk[j].res = Err(ErrorFunctionNotFound(FN_IDX_SET))
                  /\ After(j).scope = stk[j].e_ctx.scope
            /\ (~GetterOf(j).ok /\ ~Absent(GetterOf(j))) =>
                  /\ NoSetterCall(j)
                  /\ stk[j].res = GetterOf(j)
                  /\ After(j).scope = stk[j].e_ctx.scope
            /\ ((GetterOf(j).ok \/ Absent(GetterOf(j))) /\ ~SetterOf(j).ok
                  /\ ~AbsentSetter(SetterOf(j))) =>
                  /\ SetterCalled(j)
                  /\ stk[j].res = SetterOf(j)
                  /\ After(j).scope = stk[j].e_ctx.scope
            /\ ((GetterOf(j).ok \/ Absent(GetterOf(j))) /\ SetterOf(j).ok) =>
                  /\ SetterCalled(j)
                  /\ stk[j].res = Ok(UnitVal)
                  /\ Behind(j) = SetterOf(j).this

\* `o["p"] = 5` on an object whose type has an index getter and no index setter
\* returned () after the index setter was called, and o is as it was
C21_Witness ==
    /\ Len(stk) >= 1
    /\ IndexerWrite(1)
    /\ ChainOf(1) = Expr_Index(Var("o"), Expr_StringConstant(<<"p">>))
    /\ Written(1) = IntVal(5)
    /\ engine.idx_get /\ ~engine.idx_set
    /\ SetterCalled(1)
    /\ stk[1].res = Ok(UnitVal)
    /\ ValueOf(After(1), "o") = ValueOf(stk[1].e_ctx, "o")

(***************************************************************************)
(* Claims about `in`.                                                      *)
(***************************************************************************)
\* an operand whose value is read off the scope: a simple expression whose
\* variable exists, or an array literal of such
Defined(c, e) == IsSimple(e) /\ (e.k = "Variable" => get_index(c.scope, e.name) # 0)
OperandValue(c, e) ==
    IF e.k = "Array" THEN ArrayVal([h \in 1..Len(e.items) |-> SimpleValue(c, e.items[h])])
    ELSE SimpleValue(c, e)

\* the j-th call is `x in y`, y an array
Membership(j) ==
    /\ stk[j].node.k = "In"
    /\ Defined(stk[j].e_ctx, stk[j].node.lhs)
    /\ \/ Defined(stk[j].e_ctx, stk[j].node.rhs)
       \/ /\ stk[j].node.rhs.k = "Array"
          /\ \A h \in 1..Len(stk[j].node.rhs.items) :
                Defined(stk[j].e_ctx, stk[j].node.rhs.items[h])
    /\ OperandValue(stk[j].e_ctx, stk[j].node.rhs).t = "array"
Needle(j) == OperandValue(stk[j].e_ctx, stk[j].node.lhs)
Haystack(j) == OperandValue(stk[j].e_ctx, stk[j].node.rhs).a

\* `==` dispatched on (x, y[i]) returns the boolean true, or raises an error
Matches(j, i) == call_fn_raw_eq(Needle(j), Haystack(j)[i]) = Ok(BoolVal(TRUE))
Raises(j, i) == ~call_fn_raw_eq(Needle(j), Haystack(j)[i]).ok

\* the number of elements probed: up to the first that matches or raises
Probed(j) ==
    IF \E i \in 1..Len(Haystack(j)) : Matches(j, i) \/ Raises(j, i)
    THEN CHOOSE i \in 1..Len(Haystack(j)) :
            /\ Matches(j, i) \/ Raises(j, i)
            /\ \A h \in 1..(i - 1) : ~(Matches(j, h) \/ Raises(j, h))
    ELSE Len(Haystack(j))

\* C22: for `x in y` with y an array (the operations limit not passed): the
\* calls made are the calls of `==` on (x, y[1]), (x, y[2]), ... in increasing
\* order up to and including the first element for which `==` returns the
\* boolean true, and none after it; the expression yields true if and only if
\* such a call returned true, and false when no element matches, an element
\* without `==` or with a non-boolean answer counting as no match; it fails
\* only with the error a call of `==` raised; the scope is unchanged.
C22_InArray ==
    \A j \in 1..Len(stk) :
        (Membership(j) /\ ~Tripped(stk[j].res)) =>
            /\ EventsOf(j, "call") =
                 [h \in 1..Probed(j) |-> Called(<<"==">>, <<Needle(j), Haystack(j)[h]>>)]
            /\ stk[j].res = Ok(BoolVal(TRUE)) <=>
                 (Probed(j) >= 1 /\ Matches(j, Probed(j)))
            /\ stk[j].res = Ok(BoolVal(FALSE)) <=>
                 (\A i \in 1..Len(Haystack(j)) : ~Matches(j, i) /\ ~Raises(j, i))
            /\ ~stk[j].res.ok =>
                 /\ Probed(j) >= 1 /\ Raises(j, Probed(j))
                 /\ stk[j].res = call_fn_raw_eq(Needle(j), Haystack(j)[Probed(j)])
            /\ After(j).scope = stk[j].e_ctx.scope

\* `20 in a` with a = [10, 20, [30, 40]] yielded true after two calls of `==`
C22_Witness ==
    /\ Len(stk) >= 1
    /\ stk[1].node = Expr_In(Lit(20), Var("a"))
    /\ Membership(1)
    /\ stk[1].res = Ok(BoolVal(TRUE))
    /\ EventsOf(1, "call") =
         << Called(<<"==">>, <<IntVal(20), IntVal(10)>>),
            Called(<<"==">>, <<IntVal(20), IntVal(20)>>) >>

(***************************************************************************)
(* Claims about the progress callback, checked on SpecProgress.            *)
(***************************************************************************)
\* the ticks the operations limit lets pass
Allowed(n) == engine.max_operations = 0 \/ n <= engine.max_operations

\* the callback has answered false
Stopped == state.polled # <<>> /\ ~progress(state.polled[Len(state.polled)])

\* C23: with a progress callback set, the callback has been called exactly once
\* for every tick that did not trip the operations limit, with the count that
\* tick had just incremented, and for no tick that tripped it; once it has
\* answered false no further tick is made, and the call that ticked and every
\* call around it (loops, blocks) returns Terminated, which is the result of
\* the evaluation.
C23_ProgressCallback ==
    /\ \E n \in 0..state.operations :
         /\ state.polled = [i \in 1..n |-> i]
         /\ n < state.operations => (n = state.operations - 1 /\ ~Allowed(state.operations))
         /\ \A i \in 1..n : Allowed(i)
    /\ \A i \in 1..(Len(state.polled) - 1) : progress(state.polled[i])
    /\ Stopped => (ctl.mode = "ret" /\ ctl.res = Err(E("ErrorTerminated")))
    /\ (ctl.mode = "ret" /\ IsError(ctl.res, "ErrorTerminated")) => Stopped

\* a loop whose body ticked when the callback answered false has returned
\* Terminated as the result of the script
C23_Witness ==
    /\ Done
    /\ prog.k \in {"While", "Loop", "For"}
    /\ Stopped
    /\ state.operations = engine.progress
    /\ engine.progress > 3
    /\ ctl.res = Err(E("ErrorTerminated"))

(***************************************************************************)
(* Claims about the guards of if and while.                                *)
(***************************************************************************)
\* an `if` is entered and its tick passes; a `while` is entered and its tick
\* passes, or its body has returned and the loop goes on
IfGuarded == Calling("IfThenElse") /\ Tick.err = "none"
WhileEntered == Calling("While") /\ Tick.err = "none"
WhileAgain ==
    Returning("While") /\ (ctl.res.ok \/ is_loop_break(ctl.res, FALSE))

\* the guard as that step evaluates it, and the frames left when it returns
GuardNow ==
    IF WhileAgain THEN eval_expr(Ctx, Head(stk).expr) ELSE eval_expr(Tick.c, ctl.node.expr)
Outer == IF WhileAgain THEN Tail(stk) ELSE stk

\* the step evaluates the guard and nothing else
GuardOnly ==
    /\ scope' = GuardNow.c.scope
    /\ mods' = GuardNow.c.mods
    /\ state' = GuardNow.c.state

\* the step returns res to the caller of the statement, no branch or body
\* being called
Answers(res) == ctl' = [mode |-> "ret", res |-> res] /\ stk' = Outer

\* the step calls eval_stmt on node, and on nothing else
Enters(node) ==
    /\ ctl' = [mode |-> "stmt", node |-> node]
    /\ Len(stk') = Len(Outer) + 1
    /\ Tail(stk') = Outer

\* C24: an `if` or a `while` whose guard evaluates to a value that is no
\* boolean fails with LogicGuard, no branch and no body being executed; an `if`
\* whose guard is true executes its then-branch and nothing else, one whose
\* guard is false executes its else-branch and nothing else, or returns () when
\* it has none, and it returns when the branch has returned; a `while` whose
\* guard is false returns () without executing its body, one whose guard is
\* true executes its body.
C24_Guards ==
    [][ /\ ((IfGuarded \/ WhileEntered \/ WhileAgain) /\ GuardNow.res.ok) =>
             /\ GuardOnly
             /\ GuardNow.res.v.t # "bool" => Answers(Err(E("ErrorLogicGuard")))
        /\ (IfGuarded /\ GuardNow.res = Ok(BoolVal(TRUE))) => Enters(ctl.node.if_block)
        /\ (IfGuarded /\ GuardNow.res = Ok(BoolVal(FALSE))) =>
             IF ctl.node.else_block # None THEN Enters(ctl.node.else_block)
             ELSE Answers(Ok(UnitVal))
        /\ Returning("IfThenElse") => (ctl'.mode = "ret" /\ stk' = Tail(stk))
        /\ (WhileEntered /\ GuardNow.res = Ok(BoolVal(TRUE))) => Enters(ctl.node.body)
        /\ (WhileAgain /\ GuardNow.res = Ok(BoolVal(TRUE))) => Enters(Head(stk).body)
        /\ ((WhileEntered \/ WhileAgain) /\ GuardNow.res = Ok(BoolVal(FALSE))) =>
             Answers(Ok(UnitVal))
      ]_vars

\* `if 1 { ... }` has failed with LogicGuard after the tick of the statement and
\* the tick of the guard, and no other
C24_Witness ==
    /\ Done
    /\ last.k = "IfThenElse"
    /\ last.node.expr = Lit(1)
    /\ ctl.res = Err(E("ErrorLogicGuard"))
    /\ state.operations = 2
    /\ scope = InitScope

(***************************************************************************)
(* Claims about the write-back of a property of a value that is no map.    *)
(***************************************************************************)
\* the j-th call reads or writes `x.prop[i]...` or `x.prop.rest`, x a variable
\* that holds no map, and does not pass the operations limit
BelowProperty(j) ==
    /\ Rooted(j)
    /\ ChainOf(j).k = "Dot"
    /\ ChainOf(j).rhs.k \in {"Index", "Dot"}
    /\ ChainOf(j).rhs.lhs.k = "Property"
    /\ RootOf(j).t # "map"
    /\ ~Tripped(stk[j].res)
PropOf(j) == ChainOf(j).rhs.lhs.prop

\* what the getter of prop answers for the base, and the places in the history
\* of the j-th call of the calls of the getter and of the setter of prop, and of
\* the return of the sub-chain
GetterAnswer(j) == exec_fn_call_getter(PropOf(j), RootOf(j))
GetterCalls(j) ==
    {h \in 1..Len(TraceOf(j)) :
        TraceOf(j)[h] = Called(make_getter(PropOf(j)), <<RootOf(j)>>)}
SetterCalls(j) ==
    {h \in 1..Len(TraceOf(j)) :
        TraceOf(j)[h].ev = "call" /\ TraceOf(j)[h].name = make_setter(PropOf(j))}
Returns(j) == {h \in 1..Len(TraceOf(j)) : TraceOf(j)[h].ev = "walked"}
SubChain(j) == TraceOf(j)[CHOOSE h \in Returns(j) : TRUE]

\* what the setter answered to the call at place h of the history
SetterAnswer(j, h) ==
    exec_fn_call_setter(PropOf(j), TraceOf(j)[h].args[1], TraceOf(j)[h].args[2])

\* the events of the walk of the sub-chain: what a level pops, and the calls
InSubChain(ev) == ev.ev \in {"pop", "call", "rebuild"}

\* C25: for a chain `base.prop.rest` or `base.prop[idx]...` on a base that is
\* no map (the operations limit not passed): the getter of prop is called once,
\* on base; when it fails, its error is the result and nothing else is called;
\* otherwise the sub-chain is walked once, after the getter call; the setter
\* of prop is called at most once, after the sub-chain has returned, and it
\* is called if and only if the sub-chain succeeded and the getter call
\* reported `updated` or the sub-chain reported may-be-changed; a sub-chain that
\* fails gives its error to the chain; a setter that succeeds or fails with
\* DotExpr leaves the sub-chain's result as the result of the chain (() for
\* a write), any other error of the setter is the result of the chain.
C25_WriteBack ==
    \A j \in 1..Len(stk) :
        BelowProperty(j) =>
            /\ Cardinality(GetterCalls(j)) = 1
            /\ \A h \in 1..Len(TraceOf(j)) :
                  (InSubChain(TraceOf(j)[h]) /\ h \notin GetterCalls(j)) =>
                     \A g \in GetterCalls(j) : g < h \/ TraceOf(j)[h].ev = "pop"
            /\ ~GetterAnswer(j).ok =>
                  /\ stk[j].res = GetterAnswer(j)
                  /\ Len(EventsOf(j, "call")) = 1
                  /\ Returns(j) = {}
            /\ GetterAnswer(j).ok =>
                  /\ Cardinality(Returns(j)) = 1
                  /\ Cardinality(SetterCalls(j)) <= 1
                  /\ \A g \in GetterCalls(j), r \in Returns(j), h \in 1..Len(TraceOf(j)) :
                        /\ g < r
                        /\ (InSubChain(TraceOf(j)[h]) /\ g < h /\ h \notin SetterCalls(j)) =>
                              h < r
                        /\ h \in SetterCalls(j) => (r < h /\ h = Len(TraceOf(j)))
                  /\ SetterCalls(j) # {} <=>
                        /\ SubChain(j).res.ok
                        /\ GetterAnswer(j).updated \/ SubChain(j).changed
                  /\ ~SubChain(j).res.ok => stk[j].res = SubChain(j).res
                  /\ \A h \in SetterCalls(j) :
                        /\ TraceOf(j)[h].args[1] = RootOf(j)
                        /\ (~SetterAnswer(j, h).ok /\ SetterAnswer(j, h).e.k # "ErrorDotExpr")
                              => stk[j].res = SetterAnswer(j, h)
                  /\ (/\ SubChain(j).res.ok
                      /\ \A h \in SetterCalls(j) :
                            SetterAnswer(j, h).ok \/ SetterAnswer(j, h).e.k = "ErrorDotExpr")
                        => stk[j].res = IF IsWrite(j) THEN Ok(UnitVal) ELSE SubChain(j).res

\* `o.q.push(2)` on an object whose type has the getter of q and no setter, the
\* getter not reporting an update: the method reported the change of its value,
\* the setter was called after the walk and its absence passed over, and the
\* chain yielded the result of the method
C25_Witness ==
    /\ Len(stk) >= 1
    /\ BelowProperty(1)
    /\ ChainOf(1) = Expr_Dot(Var("o"), Expr_Dot(Prop("q"), Expr_FnCall("push", <<Lit(2)>>)))
    /\ ~engine.getter_updates
    /\ <<"q">> \in engine.getters
    /\ <<"q">> \notin engine.setters
    /\ Cardinality(SetterCalls(1)) = 1
    /\ SubChain(1).changed
    /\ stk[1].res = Ok(UnitVal)
    /\ ValueOf(After(1), "o") = ValueOf(stk[1].e_ctx, "o")

\* C26: in a write `base.prop[i] = v` (or `base.prop.rest = v`) on a base that
\* is no map, a sub-chain that has written with success reports
\* may-be-changed = true, so that the setter of prop is called with the local
\* value it modified, whatever the getter call reported as `updated`.
C26_WriteReported ==
    \A j \in 1..Len(stk) :
        (BelowProperty(j) /\ IsWrite(j) /\ GetterAnswer(j).ok /\ SubChain(j).res.ok) =>
            /\ SubChain(j).changed
            /\ SetterCalls(j) # {}

(***************************************************************************)
(* Claims about chains whose base is no variable.                          *)
(***************************************************************************)
\* the chain of the j-th call starts from an expression that is no variable
UnknownBase(j) ==
    /\ ChainOf(j).k \in {"Index", "Dot"}
    /\ ChainOf(j).lhs.k # "Variable"

\* the j-th call is the plain write `{expr}[i] = v` or `{expr}.id = v`; its
\* right-hand side evaluated, and then the subscripts of its chain (phase 1)
UnknownWrite(j) == IsWrite(j) /\ UnknownBase(j) /\ stk[j].node.op = ""
RhsIn(j) == eval_expr(Ticked(stk[j].e_ctx), stk[j].node.rhs)
SubscriptsIn(j) == eval_indexed_chain(RhsIn(j).c, ChainOf(j).rhs, ChainOf(j).k, <<>>)

\* the j-th call reads a chain from a variable in parentheses, by a literal
\* subscript, a property or a method call with literal arguments
ReadOfCopy(j) ==
    /\ ~IsWrite(j)
    /\ UnknownBase(j)
    /\ ChainOf(j).lhs.k = "Expr"
    /\ ChainOf(j).lhs.x.k = "Variable"
    /\ \/ IsLiteral(ChainOf(j).rhs)
       \/ ChainOf(j).rhs.k = "Property"
       \/ /\ ChainOf(j).rhs.k = "FnCall"
          /\ \A h \in 1..Len(ChainOf(j).rhs.args) : IsLiteral(ChainOf(j).rhs.args[h])
CopiedOf(j) == ValueOf(stk[j].e_ctx, ChainOf(j).lhs.x.name)

\* C27 (amended): a read chain on a base that is no variable walks from an
\* owned copy of the value of the base: it yields what the value holds and
\* leaves the scope as it was, even when a method that updates its value is
\* called on it. A write chain on such a base, its right-hand side evaluated,
\* evaluates the subscripts of the chain first: when one of them fails, that
\* error is the result; otherwise the write is rejected with
\* AssignmentToUnknownLHS, the base expression not being evaluated and nothing
\* being written, so that the scope is as the subscripts left it.
C27_UnknownBase ==
    \A j \in 1..Len(stk) :
        /\ (ReadOfCopy(j) /\ ~Tripped(stk[j].res)) =>
              /\ After(j).scope = stk[j].e_ctx.scope
              /\ (ChainOf(j).k = "Index" /\ CopiedOf(j).t = "array"
                    /\ InRange(Literal(ChainOf(j).rhs), Len(CopiedOf(j).a))) =>
                    stk[j].res = Ok(CopiedOf(j).a[ChainOf(j).rhs.i + 1])
              /\ (ChainOf(j).rhs.k = "FnCall" /\ CopiedOf(j).t = "array") =>
                    stk[j].res.ok
        /\ (UnknownWrite(j) /\ RhsIn(j).res.ok) =>
              /\ ~SubscriptsIn(j).res.ok => stk[j].res = SubscriptsIn(j).res
              /\ SubscriptsIn(j).res.ok =>
                    stk[j].res = Err(E("ErrorAssignmentToUnknownLHS"))
              /\ After(j).scope = SubscriptsIn(j).c.scope
              /\ After(j).state = SubscriptsIn(j).c.state
              /\ TraceOf(j) = SubSeq(SubscriptsIn(j).c.trace, Len(stk[j].e_ctx.trace) + 1,
                                     Len(SubscriptsIn(j).c.trace))

\* `(a)[0] = 5` was rejected with AssignmentToUnknownLHS and a is as it was, and
\* the read `(a)[0]` that follows yields the first element of a
C27_Witness ==
    /\ Len(stk) = 2
    /\ UnknownWrite(1)
    /\ ChainOf(1) = Expr_Index(Expr_Expr(Var("a")), Lit(0))
    /\ Written(1) = IntVal(5)
    /\ stk[1].res = Err(E("ErrorAssignmentToUnknownLHS"))
    /\ ValueOf(After(1), "a") = ValueOf(stk[1].e_ctx, "a")
    /\ ReadOfCopy(2)
    /\ stk[2].res = Ok(IntVal(10))

\* C27 as stated: a write chain on a base that is no variable is rejected with
\* AssignmentToUnknownLHS (unless the operations limit is passed) and leaves
\* the scope as it was.
C27_RejectedUnchanged ==
    \A j \in 1..Len(stk) :
        UnknownWrite(j) =>
            /\ stk[j].res = Err(E("ErrorAssignmentToUnknownLHS")) \/ Tripped(stk[j].res)
            /\ After(j).scope = stk[j].e_ctx.scope

(***************************************************************************)
(* Claims about op-assignments.                                            *)
(***************************************************************************)
\* the j-th call is `L op= R` with L a chain; op is "" for the plain `L = R`
ChainAssign(j) == IsWrite(j) /\ ChainOf(j).k \in {"Index", "Dot"}
OpOf(j) == stk[j].node.op

\* the read of L that follows R in `L op= R`, and the operator without `=`
\* applied to (old value of L, value of R)
OldIn(j) == eval_expr(RhsIn(j).c, ChainOf(j))
Applied(j) == exec_fn_call_op(op_without_eq(OpOf(j)), OldIn(j).res.v, RhsIn(j).res.v)

\* the context once the operator has been called: the call is in the history
Operated(j) ==
    log(OldIn(j).c, Called(<<op_without_eq(OpOf(j))>>, <<OldIn(j).res.v, RhsIn(j).res.v>>))

\* the plain write of the value v through the chain walker, in the context c
PlainWrite(c, chain, v) == assign_chain(eval_dot_index_chain(c, chain, v))

\* the subscripts and arguments of a chain in source order, none for other
\* expressions; the subscripts the j-th call evaluated, in the order of evaluation
SubscriptsAt(e) == IF e.k \in {"Index", "Dot"} THEN SubscriptsOf(LevelsOf(e.rhs)) ELSE <<>>
SubscriptsBy(j) == [h \in 1..Len(EventsOf(j, "index")) |-> EventsOf(j, "index")[h].expr]

\* the j-th call left the context c
Left(j, c) ==
    /\ After(j).scope = c.scope
    /\ After(j).state = c.state
    /\ After(j).trace = c.trace

\* a place in an array, a map or a string, below no property of a host value
PlainPlace(j) ==
    /\ ChainOf(j).lhs.k = "Variable"
    /\ ~is_host(ValueOf(stk[j].e_ctx, ChainOf(j).lhs.name))

\* C28: for `L op= R` with L an index or dot chain, R is evaluated first (its
\* error is the result); then L is evaluated as a read (its error is the
\* result); then the operator without `=` is applied to (old value of L, value
\* of R) (its error is the result, nothing being written); then the result is
\* written through the chain walker as the plain write of that value is. When
\* the op-assignment succeeds, the subscripts of L were evaluated twice, after
\* those of R, and the read of L that follows yields op(old L, R) for a place
\* of an array, a map or a string. For the plain `L = R` that succeeds the
\* subscripts of L are evaluated once, after those of R.
C28_OpAssignChain ==
    \A j \in 1..Len(stk) :
        ChainAssign(j) =>
            /\ ~RhsIn(j).res.ok => stk[j].res = RhsIn(j).res /\ Left(j, RhsIn(j).c)
            /\ (RhsIn(j).res.ok /\ OpOf(j) = "" /\ stk[j].res.ok) =>
                  SubscriptsBy(j) = SubscriptsAt(stk[j].node.rhs) \o SubscriptsAt(ChainOf(j))
            /\ (RhsIn(j).res.ok /\ OpOf(j) # "") =>
                  /\ ~OldIn(j).res.ok => stk[j].res = OldIn(j).res /\ Left(j, OldIn(j).c)
                  /\ (OldIn(j).res.ok /\ ~Applied(j).ok) =>
                        stk[j].res = Applied(j) /\ Left(j, Operated(j))
                  /\ (OldIn(j).res.ok /\ Applied(j).ok) =>
                        /\ stk[j].res = PlainWrite(Operated(j), ChainOf(j), Applied(j).v).res
                        /\ Left(j, PlainWrite(Operated(j), ChainOf(j), Applied(j).v).c)
                  /\ stk[j].res.ok =>
                        /\ SubscriptsBy(j) = SubscriptsAt(stk[j].node.rhs)
                                \o SubscriptsAt(ChainOf(j)) \o SubscriptsAt(ChainOf(j))
                        /\ (j < Len(stk) /\ PlainPlace(j) /\ ~Tripped(stk[j + 1].res)) =>
                              stk[j + 1].res = Applied(j)

\* `a[(m.k)] += a[1]`: a[1] is 20 and so is the old a[(m.k)]; the subscript 1
\* of R and then twice the subscript (m.k) of L were evaluated, and a[(m.k)]
\* reads 40
C28_Witness ==
    /\ Len(stk) = 2
    /\ stk[1].node = Expr_Assignment(
                         Expr_Index(Var("a"), Expr_Expr(Expr_Dot(Var("m"), Prop("k")))),
                         "+=", Expr_Index(Var("a"), Lit(1)))
    /\ stk[1].res = Ok(UnitVal)
    /\ SubscriptsBy(1) = << Lit(1), Expr_Expr(Expr_Dot(Var("m"), Prop("k"))),
                            Expr_Expr(Expr_Dot(Var("m"), Prop("k"))) >>
    /\ stk[2].res = Ok(IntVal(40))

\* the j-th call is `x op= rhs` with an operator, x a variable of the scope
\* that is no constant
VarOpAssign(j) ==
    /\ IsWrite(j)
    /\ stk[j].node.lhs.k = "Variable"
    /\ OpOf(j) # ""
    /\ \E i \in 1..Len(stk[j].e_ctx.scope) : stk[j].e_ctx.scope[i].name = stk[j].node.lhs.name
    /\ stk[j].e_ctx.scope[get_index(stk[j].e_ctx.scope, stk[j].node.lhs.name)].typ = "Normal"

\* the value of x when the right-hand side is evaluated, and when the call is over
OldValue(j) == ValueOf(RhsIn(j).c, stk[j].node.lhs.name)
NewValue(j) == ValueOf(After(j), stk[j].node.lhs.name)

\* the three mechanisms: the native method registered for (op, type of x, type
\* of rhs), the built-in op-assignment, the call of the operator without `=`
NativeFor(j) == <<OpOf(j), type_id(OldValue(j)), type_id(RhsIn(j).res.v)>> \in engine.native_ops
BuiltinFor(j) == run_builtin_op_assignment(OpOf(j), OldValue(j), RhsIn(j).res.v)
OperatorFor(j) == exec_fn_call_op(op_without_eq(OpOf(j)), OldValue(j), RhsIn(j).res.v)

\* the functions the j-th call called once the right-hand side was evaluated
CallsAfterRhs(j) ==
    EventsIn(SubSeq(After(j).trace, Len(RhsIn(j).c.trace) + 1, Len(After(j).trace)), "call")

\* C29: for `x op= rhs` with x a Normal variable and an operator, rhs evaluated
\* and the operations limit not passed: when a native method is registered for
\* (op, type of x, type of rhs) it is called and nothing else; otherwise, when
\* the built-in op-assignment applies, it is applied and nothing is called;
\* otherwise the operator without `=` is called on (the value of x, rhs), its
\* result is stored into x, and when it fails its error is the result and x
\* keeps its value. No other variable changes, and x then reads as it was left.
C29_OpAssignVariable ==
    \A j \in 1..Len(stk) :
        (VarOpAssign(j) /\ RhsIn(j).res.ok /\ ~Tripped(stk[j].res)) =>
            /\ NativeFor(j) =>
                  /\ stk[j].res = Ok(UnitVal)
                  /\ NewValue(j) = native_op_method(OpOf(j), OldValue(j), RhsIn(j).res.v)
                  /\ CallsAfterRhs(j) = <<Called(<<OpOf(j)>>, <<OldValue(j), RhsIn(j).res.v>>)>>
            /\ (~NativeFor(j) /\ BuiltinFor(j) # None) =>
                  /\ stk[j].res = Ok(UnitVal)
                  /\ NewValue(j) = BuiltinFor(j)
                  /\ CallsAfterRhs(j) = <<>>
            /\ (~NativeFor(j) /\ BuiltinFor(j) = None) =>
                  /\ CallsAfterRhs(j) = <<Called(<<op_without_eq(OpOf(j))>>,
                                                 <<OldValue(j), RhsIn(j).res.v>>)>>
                  /\ OperatorFor(j).ok => stk[j].res = Ok(UnitVal) /\ NewValue(j) = OperatorFor(j).v
                  /\ ~OperatorFor(j).ok => stk[j].res = OperatorFor(j) /\ NewValue(j) = OldValue(j)
            /\ Len(After(j).scope) = Len(stk[j].e_ctx.scope)
            /\ \A i \in 1..Len(After(j).scope) :
                  After(j).scope[i].name # stk[j].node.lhs.name =>
                      After(j).scope[i] = stk[j].e_ctx.scope[i]
            /\ (j < Len(stk) /\ ~Tripped(stk[j + 1].res)) => stk[j + 1].res = Ok(NewValue(j))

\* `s += 'z'` with no native method registered: the built-in does not apply to
\* a string and a character, `+` was called, and s reads "abaz"
C29_Witness ==
    /\ Len(stk) = 2
    /\ VarOpAssign(1)
    /\ stk[1].node = Expr_Assignment(Var("s"), "+=", Expr_CharConstant("z"))
    /\ engine.native_ops = {}
    /\ CallsAfterRhs(1) = <<Called(<<"+">>, <<StrVal(<<"a", "b", "a">>), CharVal("z")>>)>>
    /\ stk[1].res = Ok(UnitVal)
    /\ stk[2].res = Ok(StrVal(<<"a", "b", "a", "z">>))

(***************************************************************************)
(* Claims about imports.                                                   *)
(***************************************************************************)
\* the import that has just returned: the value of its path expression, and
\* what the resolver answers to it
PathOf == eval_expr(Ticked(last.e_ctx), last.node.expr)
ResolvedOf == resolve(PathOf.res.v.s)
Imported == last.k = "Import" /\ last.res.ok
ImportFailed == last.k = "Import" /\ ~last.res.ok

\* C30: an import that succeeds pushes exactly the pair (alias, module the
\* resolver answered for the path) on top of the imports and increases
\* state.modules by exactly 1. An import that fails leaves both the imports and
\* state.modules as they were; with the operations limit and the module limit
\* not passed and the path expression evaluated, it fails with ImportExpr iff
\* the path is no string, else with ModuleNotFound when the engine has no
\* module resolver, else with the error of the resolver.
C30_ImportEffect ==
    /\ Imported =>
          /\ PathOf.res.ok /\ PathOf.res.v.t = "str"
          /\ engine.module_resolver /\ ResolvedOf.ok
          /\ mods = Append(last.e_ctx.mods, [alias |-> last.node.name, module |-> ResolvedOf.v])
          /\ state.modules = last.e_ctx.state.modules + 1
    /\ ImportFailed =>
          /\ mods = last.e_ctx.mods
          /\ state.modules = last.e_ctx.state.modules
          /\ (/\ inc_operations(last.e_ctx.state).err = "none"
              /\ ~ge_usize(last.e_ctx.state.modules, engine.max_modules)
              /\ PathOf.res.ok) =>
                 /\ (last.res = Err(E("ErrorImportExpr"))) <=> PathOf.res.v.t # "str"
                 /\ (PathOf.res.v.t = "str" /\ ~engine.module_resolver) =>
                       last.res = Err(E("ErrorModuleNotFound"))
                 /\ (PathOf.res.v.t = "str" /\ engine.module_resolver) =>
                       last.res = ResolvedOf

\* a second import has pushed its module on top of the first
C30_Witness ==
    /\ Imported
    /\ Len(last.e_ctx.mods) = 1
    /\ Len(mods) = 2
    /\ mods[2] = [alias |-> "m", module |-> Module(<<"m">>)]
    /\ state.modules = 2

(***************************************************************************)
(* Claims about the count of modules.                                      *)
(***************************************************************************)
\* an import has just returned that the limit of modules refused
Refused == last.k = "Import" /\ last.res = Err(E("ErrorTooManyModules"))

\* C31: state.modules never decreases: a step leaves it as it is or adds one,
\* and it adds one only when an import succeeds, which pushes one module; a
\* block exit that truncates the imports leaves it as it is. Hence there are
\* never more imports than state.modules counts, and an import whose tick
\* passed is refused when state.modules has reached max_modules, whatever the
\* number of imports left.
C31_ModulesNeverDecrease ==
    /\ [](Len(mods) <= state.modules)
    /\ [](last.k = "Import" =>
            ((/\ inc_operations(last.e_ctx.state).err = "none"
              /\ ge_usize(last.e_ctx.state.modules, engine.max_modules)) => Refused))
    /\ [][/\ state'.modules \in {state.modules, state.modules + 1}
          /\ state'.modules = state.modules + 1 =>
                /\ last'.k = "Import" /\ last'.res.ok
                /\ Len(mods') = Len(mods) + 1
          /\ Len(mods') < Len(mods) => state'.modules = state.modules]_vars

\* under max_modules = 1 the body of a loop imported a module and has exited:
\* no import is left, and the import of the next turn was refused
C31_Witness ==
    /\ Refused
    /\ engine.max_modules = usize(1)
    /\ mods = <<>>
    /\ state.modules = 1
    /\ \E i \in 1..Len(stk) : stk[i].k \in {"While", "Loop", "For"}

(***************************************************************************)
(* Claims about the signals of return and throw.                           *)
(***************************************************************************)
\* the result is the signal of a `return` or of a `throw`
Signal(res) == ~res.ok /\ res.e.k \in {"Return", "ErrorRuntime"}

\* the enclosing statement on top of the stack is handed a signal
SignalHanded == ctl.mode = "ret" /\ stk # <<>> /\ Signal(ctl.res)

\* a `return` or `throw` has just returned; the value of its expression
Raised == last.k = "ReturnWithVal"
RaisedValue ==
    IF last.node.expr = None THEN R(Ok(UnitVal), Ticked(last.e_ctx))
    ELSE eval_expr(Ticked(last.e_ctx), last.node.expr)

\* C32: a `return` or `throw` whose tick passes and whose value evaluates
\* returns the signal Return or ErrorRuntime. An enclosing block, `if`,
\* `while`, `loop` or `for` that is handed such a signal returns it unchanged
\* to its own caller in its next step, without a governor tick and without
\* calling a statement; a block first restores the lengths of the scope and
\* of the imports it was entered with, any other statement leaves the
\* imports as they are.
C32_SignalsPropagate ==
    /\ []((Raised /\ inc_operations(last.e_ctx.state).err = "none" /\ RaisedValue.res.ok) =>
            /\ Signal(last.res)
            /\ last.res.e.k = (IF last.node.rt = "Return" THEN "Return" ELSE "ErrorRuntime")
            /\ last.node.rt = "Return" => last.res.e.v = RaisedValue.res.v)
    /\ [][SignalHanded =>
            /\ ctl' = ctl
            /\ stk' = Tail(stk)
            /\ state'.operations = state.operations
            /\ Head(stk).k = "Block" =>
                  /\ Len(scope') = Head(stk).prev_scope_len
                  /\ Len(mods') = Head(stk).prev_mods_len
            /\ Head(stk).k # "Block" => mods' = mods]_vars

\* `throw` in a block of two statements in the body of a loop: the evaluation
\* has returned the signal, and the statement after the throw was not called
C32_Witness ==
    /\ Done
    /\ Signal(ctl.res)
    /\ prog.k \in {"While", "Loop", "For"}
    /\ BodyOf(prog).k = "Block"
    /\ Len(BodyOf(prog).stmts) = 2
    /\ BodyOf(prog).stmts[1].k = "ReturnWithVal"
    /\ BodyOf(prog).stmts[2].k = "Import"
    /\ state.modules = 0

(***************************************************************************)
(* Claims about the values the size check lets through.                    *)
(***************************************************************************)
\* the cap of the engine for values of the shape t, 0 for a shape with no cap
CapOf(t) ==
    CASE t = "str" -> engine.max_string_size
      [] t = "array" -> engine.max_array_size
      [] t = "map" -> engine.max_map_size
      [] OTHER -> 0

\* the value holds, at some depth, a string longer than n
RECURSIVE HoldsLongString(_, _)
HoldsLongString(v, n) ==
    CASE v.t = "str" -> Len(v.s) > n
      [] v.t = "array" -> \E i \in 1..Len(v.a) : HoldsLongString(v.a[i], n)
      [] v.t = "map" -> \E key \in DOMAIN v.m : HoldsLongString(v.m[key], n)
      [] OTHER -> FALSE

\* C33: check_data_size returns an error result as it is, and returns as it is
\* every successful value for whose own shape the engine has no cap, whatever
\* the value holds.
C33_UncappedShapesPass ==
    ctl.mode = "checked" =>
        /\ ~ctl.arg.ok => ctl.res = ctl.arg
        /\ (ctl.arg.ok /\ CapOf(ctl.arg.v.t) = 0) => ctl.res = ctl.arg

\* with max_string_size alone set, an array that holds a string longer than
\* the cap has passed
C33_Witness ==
    /\ Checked("array")
    /\ engine.max_string_size = SizeCap
    /\ engine.max_array_size = 0
    /\ engine.max_map_size = 0
    /\ HoldsLongString(ctl.arg.v, engine.max_string_size)
    /\ ctl.res = ctl.arg

(***************************************************************************)
(* Claims about the search for module-qualified variables.                 *)
(***************************************************************************)
\* the positions of the imports that have the alias
ImportsNamed(alias) == {i \in 1..Len(mods) : mods[i].alias = alias}

\* the search took the module at the position i of the imports: the variable
\* it holds is found as a constant, or it holds none of that name
FoundIn(i) ==
    IF prog.name \notin DOMAIN mods[i].module.vars
    THEN ctl.res = Err(E("ErrorVariableNotFound"))
    ELSE /\ ctl.res.ok
         /\ ctl.res.ref = ModuleRef(i, prog.name)
         /\ deref(Ctx, ctl.res.ref) = mods[i].module.vars[prog.name]
         /\ ctl.res.typ = "Constant"

\* C34: the search for a module-qualified variable takes, if always_search is
\* false and the qualifier carries a cached offset k, the import k below the
\* top of the imports, whatever its alias; otherwise the most recently pushed
\* import that has the root alias, and it fails with ModuleNotFound when none
\* has it. The variable found in the module comes with the entry type
\* Constant, whatever it holds; a module that has no such variable yields
\* VariableNotFound.
C34_QualifiedSearch ==
    ctl.mode = "found" =>
        IF ~state.always_search /\ prog.modules.index # 0
        THEN FoundIn(Len(mods) - prog.modules.index + 1)
        ELSE IF ImportsNamed(prog.modules.root) = {}
        THEN ctl.res = Err(E("ErrorModuleNotFound"))
        ELSE \E i \in ImportsNamed(prog.modules.root) :
                /\ \A j \in ImportsNamed(prog.modules.root) : j <= i
                /\ FoundIn(i)

\* m::answer with no cached offset under the imports <<m, q, m>>: the module
\* pushed last is taken, and its string is found as a constant
C34_Witness ==
    /\ ctl.mode = "found"
    /\ prog = Expr_QualifiedVariable("m", 0, "answer")
    /\ Len(mods) = 3
    /\ mods[1].alias = "m" /\ mods[2].alias = "q" /\ mods[3].alias = "m"
    /\ mods[1].module.vars = [v \in {"answer"} |-> IntVal(1)]
    /\ ctl.res.ok
    /\ ctl.res.typ = "Constant"
    /\ deref(Ctx, ctl.res.ref) = StrVal(<<"s">>)

(***************************************************************************)
(* Claims about subscripts that are function calls.                        *)
(***************************************************************************)
\* the j-th call evaluates an index chain whose first subscript is a function
\* call with literal arguments, the last subscript of the chain or not
CallSubscript(j) ==
    /\ ~IsWrite(j)
    /\ ChainOf(j).k = "Index"
    /\ ChainOf(j).lhs.k = "Variable"
    /\ LevelsOf(ChainOf(j).rhs)[1].k = "FnCall"
    /\ \A h \in 1..Len(LevelsOf(ChainOf(j).rhs)[1].args) :
          IsLiteral(LevelsOf(ChainOf(j).rhs)[1].args[h])
SubscriptCall(j) == LevelsOf(ChainOf(j).rhs)[1]

\* C35 as stated: a subscript that is an unqualified function call is
\* evaluated as an ordinary expression, so that the function is called with
\* its arguments, the index value pushed for it is no argument list, and no
\* unreachable arm is reached.
C35_SubscriptCallsEvaluated ==
    \A j \in 1..Len(stk) :
        (CallSubscript(j) /\ ~Tripped(stk[j].res)) =>
            /\ stk[j].res # Err(E("panic"))
            /\ Logged(j, Called(<<SubscriptCall(j).name>>,
                                [h \in 1..Len(SubscriptCall(j).args) |->
                                   Literal(SubscriptCall(j).args[h])]))
            /\ \A h \in 1..Len(EventsOf(j, "push")) : EventsOf(j, "push")[h].v.t # "args"

(***************************************************************************)
(* Claims about the count of operations under a limit.                     *)
(***************************************************************************)
\* an evaluation has just returned TooManyOperations: a statement to the
\* statement around it, or an expression to the host
TrippedNow ==
    \/ ctl.mode = "ret" /\ Tripped(ctl.res)
    \/ ctl.mode = "host" /\ stk # <<>> /\ Tripped(stk[Len(stk)].res)

\* C36: with max_operations = N > 0, state.operations <= N + 1 in every state,
\* and it is N + 1 wherever an evaluation returns TooManyOperations: the tick
\* that trips is the last one; a statement that is handed TooManyOperations
\* returns it in its next step, with no tick.
C36_OperationsBounded ==
    /\ [](engine.max_operations > 0 =>
            /\ state.operations <= engine.max_operations + 1
            /\ TrippedNow => state.operations = engine.max_operations + 1)
    /\ [][(ctl.mode = "ret" /\ Tripped(ctl.res) /\ stk # <<>>) =>
            /\ ctl' = ctl
            /\ stk' = Tail(stk)
            /\ state'.operations = state.operations]_vars

\* the write `o.q[0] = 5` through a getter has tripped the limit after the
\* getter was called: the setter was not called to write back
C36_Witness ==
    /\ ctl.mode = "host"
    /\ Len(stk) = 1
    /\ stk[1].node.k = "Assignment"
    /\ stk[1].node.lhs = Expr_Dot(Var("o"), Expr_Index(Prop("q"), Lit(0)))
    /\ Tripped(stk[1].res)
    /\ state.operations = engine.max_operations + 1
    /\ \E h \in 1..Len(trace) : trace[h] = Called(make_getter(<<"q">>), <<ValueOf(Ctx, "o")>>)
    /\ \A h \in 1..Len(trace) : trace[h].ev = "call" => trace[h].name # make_setter(<<"q">>)

(***************************************************************************)
(* Claims about the values of constants.                                   *)
(***************************************************************************)
\* the entries of the scope of the host that are constants
ConstantEntries == {i \in 1..Len(ExprScope) : ExprScope[i].typ = "Constant"}

\* C37 as stated: the value of a Constant entry of the scope is never modified,
\* by no assignment and by no read chain rooted at the constant: every
\* constant of the scope of the host holds, in every state, the value it was
\* declared with.
C37_ConstantsUnmodified ==
    \A i \in ConstantEntries :
        /\ i <= Len(scope)
        /\ scope[i].typ = "Constant"
        /\ scope[i].value = ExprScope[i].value

(***************************************************************************)
(* Claims about the level of the scope.                                    *)
(***************************************************************************)
\* C38 as stated: when an eval_stmt call returns, on whatever path and for
\* whatever statement, state.scope_level is what it was when the call was
\* entered.
C38_ScopeLevelRestored ==
    (ctl.mode = "ret" /\ last.k # "none") => state.scope_level = last.e_level

=============================================================================
